---- MODULE Spec2Model ----
(***************************************************************************)
(* Model of the outlan IPAM application: blocks, containers and subnets    *)
(* stored in a relational database, the CIDR/VLAN conflict checks, the     *)
(* change log whose entries carry full snapshots, and snapshot restore.    *)
(*                                                                         *)
(* Text values are modelled by what the code reads from them:              *)
(*   - a name is a sequence of character codes (ASCII);                    *)
(*   - a CIDR text is a record [form, addr, plen]: form "empty" is the     *)
(*     empty string, "addr" an address without "/", "cidr" the text        *)
(*     addr/plen; addr is the dotted quad as a 32 bit number;              *)
(*   - a VLAN text is a record [form, n]: "empty", "digits" (the decimal   *)
(*     digits of n) or "other" (any text that is not all digits).          *)
(* SQL NULL / Python None is the number Null.                              *)
(***************************************************************************)
EXTENDS Integers, Sequences, FiniteSets, TLC

Null == -1

\* ---------------------------------------------------------------- bounds
MaxBlocks == 2
MaxSubnets == 2
MaxContainers == 2
MaxLog == 4
MaxRequests == 2

\* ------------------------------------------------------ program constants
MAX_INPUT_LENGTH == 100
MAX_NAME_LENGTH == 50
MIN_VLAN_ID == 1
MAX_VLAN_ID == 4094
DEFAULT_SORT_FIELD == "VLAN"

\* ------------------------------------------------------------ characters
Whitespace == {9, 10, 11, 12, 13, 32}
InvalidNameChars == {60, 62, 34, 39}

Pow2(n) == 2 ^ n

Max(S) == CHOOSE x \in S : \A y \in S : y <= x

\* str.strip(): drop leading and trailing whitespace
RECURSIVE LStrip(_)
LStrip(s) == IF s # <<>> /\ Head(s) \in Whitespace THEN LStrip(Tail(s)) ELSE s

RECURSIVE RStrip(_)
RStrip(s) ==
    IF s # <<>> /\ s[Len(s)] \in Whitespace THEN RStrip(SubSeq(s, 1, Len(s) - 1)) ELSE s

Strip(s) == RStrip(LStrip(s))

\* re.sub(r"<[^>]+>", "", text): remove every "<", one or more non-">", ">"
RECURSIVE StripTags(_)
StripTags(s) ==
    IF s = <<>> THEN <<>>
    ELSE IF Head(s) = 60 /\ \E j \in 3..Len(s) : s[j] = 62 /\ \A k \in 2..(j - 1) : s[k] # 62
         THEN LET j == CHOOSE j \in 3..Len(s) : s[j] = 62 /\ \A k \in 2..(j - 1) : s[k] # 62
              IN  StripTags(SubSeq(s, j + 1, Len(s)))
         ELSE <<Head(s)>> \o StripTags(Tail(s))

sanitize_input(text) ==
    IF text = <<>> THEN <<>>
    ELSE LET cleaned == StripTags(text)
         IN  Strip(SubSeq(cleaned, 1, IF Len(cleaned) < MAX_INPUT_LENGTH
                                      THEN Len(cleaned) ELSE MAX_INPUT_LENGTH))

Lower(c) == IF c >= 65 /\ c <= 90 THEN c + 32 ELSE c
LowerSeq(s) == [i \in 1..Len(s) |-> Lower(s[i])]

\* lexicographic order on sequences of numbers (tuples, byte strings)
RECURSIVE LexLess(_, _)
LexLess(a, b) ==
    IF b = <<>> THEN FALSE
    ELSE IF a = <<>> THEN TRUE
    ELSE IF Head(a) # Head(b) THEN Head(a) < Head(b)
    ELSE LexLess(Tail(a), Tail(b))

\* A small matcher for the patterns of validate_block_name (re.IGNORECASE).
\* A pattern is a sequence of tokens: a character code, or one of the
\* negative numbers below for \s, \s*, \s+ and .*?
TokWs == -1
TokWsStar == -2
TokWsPlus == -3
TokAnyStar == -4

RECURSIVE MatchHere(_, _)
MatchHere(pat, s) ==
    IF pat = <<>> THEN TRUE
    ELSE LET t == Head(pat)
             rest == Tail(pat)
             ws == s # <<>> /\ Head(s) \in Whitespace
         IN  CASE t = TokWs -> ws /\ MatchHere(rest, Tail(s))
               [] t = TokWsStar -> MatchHere(rest, s) \/ (ws /\ MatchHere(pat, Tail(s)))
               [] t = TokWsPlus -> ws /\ MatchHere(<<TokWsStar>> \o rest, Tail(s))
               [] t = TokAnyStar ->
                      MatchHere(rest, s) \/ (s # <<>> /\ Head(s) # 10 /\ MatchHere(pat, Tail(s)))
               [] OTHER -> s # <<>> /\ Lower(Head(s)) = Lower(t) /\ MatchHere(rest, Tail(s))

Search(pat, s) == \E i \in 1..(Len(s) + 1) : MatchHere(pat, SubSeq(s, i, Len(s)))

sql_injection_patterns ==
    { <<59, TokWsStar, 45, 45>>,
      <<59, TokWsStar, 68, 82, 79, 80>>,
      <<59, TokWsStar, 68, 69, 76, 69, 84, 69>>,
      <<59, TokWsStar, 73, 78, 83, 69, 82, 84>>,
      <<59, TokWsStar, 85, 80, 68, 65, 84, 69>>,
      <<47, 42, TokAnyStar, 42, 47>>,
      <<45, 45, TokWs>>,
      <<39, TokWsStar, 79, 82, TokWsStar, 39>>,
      <<39, TokWsStar, 65, 78, 68, TokWsStar, 39>>,
      <<85, 78, 73, 79, 78, TokWsPlus, 83, 69, 76, 69, 67, 84>> }

\* ------------------------------------------------------------ validators
validate_block_name(name) ==
    /\ name # <<>>
    /\ Strip(name) # <<>>
    /\ Len(name) <= MAX_NAME_LENGTH
    /\ \A i \in 1..Len(name) : name[i] \notin InvalidNameChars
    /\ \A pat \in sql_injection_patterns : ~Search(pat, name)

validate_subnet_name(name) ==
    /\ name # <<>>
    /\ Strip(name) # <<>>
    /\ Len(name) <= MAX_NAME_LENGTH
    /\ \A i \in 1..Len(name) : name[i] \notin InvalidNameChars

\* validate_vlan_id: [ok, vlan]; the empty text is valid and gives None
validate_vlan_id(v) ==
    IF v.form = "empty" THEN [ok |-> TRUE, vlan |-> Null]
    ELSE IF v.form # "digits" THEN [ok |-> FALSE, vlan |-> Null]
    ELSE IF v.n < MIN_VLAN_ID \/ v.n > MAX_VLAN_ID THEN [ok |-> FALSE, vlan |-> Null]
    ELSE [ok |-> TRUE, vlan |-> v.n]

\* ------------------------------------------------------------------ CIDR
HostSize(c) == Pow2(32 - c.plen)
HasHostBits(c) == c.addr % HostSize(c) # 0
network_address(c) == c.addr - (c.addr % HostSize(c))
broadcast_address(c) == network_address(c) + HostSize(c) - 1

\* ipaddress.IPv4Network(text, strict): TRUE when it returns a network,
\* FALSE when it raises ValueError.  An address without "/" is a /32.
IPv4Network(c, strict) ==
    /\ c.form \in {"addr", "cidr"}
    /\ c.addr >= 0 /\ c.addr \div Pow2(16) < Pow2(16)
    /\ c.plen >= 0 /\ c.plen <= 32
    /\ strict => ~HasHostBits(c)

\* IPv4Network.__contains__ for an address
AddrIn(a, c) == network_address(c) <= a /\ a <= broadcast_address(c)

\* IPv4Network.overlaps
overlaps(a, b) ==
    \/ AddrIn(network_address(b), a)
    \/ AddrIn(broadcast_address(b), a)
    \/ AddrIn(network_address(a), b)
    \/ AddrIn(broadcast_address(a), b)

validate_cidr_format(c) ==
    /\ c.form # "empty"
    /\ c.form = "cidr"
    /\ IPv4Network(c, FALSE)

\* ------------------------------------------------------ database queries
\* The stored data is a record db = [blocks, containers, subnets] of sets of
\* rows.  INTEGER PRIMARY KEY of SQLite: a new row gets max(id) + 1.
NextId(rows) == IF rows = {} THEN 1 ELSE Max({r.id : r \in rows}) + 1

\* ORDER BY / sorted(): the rows of a set, each paired with its sort key, as
\* a sequence ordered by key, rows with equal keys in rowid order (sorted()
\* is stable, the scan is by rowid)
SortedBy(keyed) ==
    LET Before(y, x) == LexLess(y.key, x.key) \/ (y.key = x.key /\ y.row.id < x.row.id)
        at == [i \in 1..Cardinality(keyed) |->
                 (CHOOSE x \in keyed : Cardinality({y \in keyed : Before(y, x)}) = i - 1).row]
    IN  at \o <<>>

get_block_by_id(db, block_id) == {b \in db.blocks : b.id = block_id}
get_block_by_name(db, name) == {b \in db.blocks : b.name = name}
get_subnet_by_id(db, subnet_id) == {s \in db.subnets : s.id = subnet_id}
get_container_by_id(db, container_id) == {c \in db.containers : c.id = container_id}

BlockOf(db, block_id) == CHOOSE b \in db.blocks : b.id = block_id
BlockName(db, block_id) ==
    IF get_block_by_id(db, block_id) = {} THEN <<>> ELSE BlockOf(db, block_id).name

\* NetworkBlock.query.order_by(position, name)
get_all_blocks(db) ==
    SortedBy({[key |-> <<b.position>> \o b.name, row |-> b] : b \in db.blocks})

\* NetworkContainer.query.join(NetworkBlock).order_by(NetworkBlock.position,
\* NetworkContainer.position, NetworkContainer.name): the inner join drops a
\* container whose block does not exist
get_all_containers(db) ==
    LET joined == {c \in db.containers : get_block_by_id(db, c.block_id) # {}}
        Key(c) == <<BlockOf(db, c.block_id).position, c.position>> \o c.name
    IN  SortedBy({[key |-> Key(c), row |-> c] : c \in joined})

\* sort keys; float("inf") is the pair <<1, 0>>, a number n the pair <<0, n>>
get_network_key(s) ==
    IF IPv4Network(s.cidr, FALSE)
    THEN <<s.block_id, 0, network_address(s.cidr), s.cidr.plen>>
    ELSE <<s.block_id, 1, 0, 0>>

get_vlan_network_key(s) ==
    IF IPv4Network(s.cidr, FALSE)
    THEN (IF s.vlan_id # Null THEN <<s.block_id, 0, s.vlan_id>> ELSE <<s.block_id, 1, 0>>)
         \o <<0, network_address(s.cidr), s.cidr.plen>>
    ELSE (IF s.vlan_id # Null /\ s.vlan_id # 0
          THEN <<s.block_id, 0, s.vlan_id>> ELSE <<s.block_id, 1, 0>>)
         \o <<1, 0, 0>>

\* the name is followed by an end mark smaller than every character, so that
\* the comparison of the names is decided before the address is looked at
get_name_network_key(s) ==
    <<s.block_id>> \o LowerSeq(s.name) \o <<-1>> \o
    (IF IPv4Network(s.cidr, FALSE)
     THEN <<0, network_address(s.cidr), s.cidr.plen>> ELSE <<1, 0, 0>>)

sort_networks_by_ip(rows) == SortedBy({[key |-> get_network_key(s), row |-> s] : s \in rows})
sort_networks_by_vlan_with_network(rows) == SortedBy({[key |-> get_vlan_network_key(s), row |-> s] : s \in rows})
sort_networks_by_name_with_network(rows) == SortedBy({[key |-> get_name_network_key(s), row |-> s] : s \in rows})

get_default_sort == DEFAULT_SORT_FIELD

\* the decimal text of a number and the dotted text of a CIDR, as sequences
\* of character codes: the column Subnet.cidr is compared as text
RECURSIVE Digits(_)
Digits(n) == IF n < 10 THEN <<48 + n>> ELSE Digits(n \div 10) \o <<48 + (n % 10)>>

CidrText(c) ==
    LET Octet(k) == Digits((c.addr \div Pow2(8 * k)) % 256)
        addr == Octet(3) \o <<46>> \o Octet(2) \o <<46>> \o Octet(1) \o <<46>> \o Octet(0)
    IN  IF c.form = "cidr" THEN addr \o <<47>> \o Digits(c.plen) ELSE addr

get_all_subnets(db) ==
    LET Key(s) == <<s.block_id>> \o CidrText(s.cidr) IN
    CASE get_default_sort = "Network" -> sort_networks_by_ip(db.subnets)
      [] get_default_sort = "VLAN" -> sort_networks_by_vlan_with_network(db.subnets)
      [] get_default_sort = "Name" -> sort_networks_by_name_with_network(db.subnets)
      [] OTHER -> SortedBy({[key |-> Key(s), row |-> s] : s \in db.subnets})

\* ------------------------------------------------------- conflict checks
\* Each check returns [found, rec]: rec is the first conflicting row in the
\* order of the scan.
NoRec == [id |-> 0, block_id |-> 0]
FirstMatch(seq, hits) ==
    IF \E i \in 1..Len(seq) : seq[i] \in hits
    THEN [found |-> TRUE,
          rec |-> seq[CHOOSE i \in 1..Len(seq) :
                        seq[i] \in hits /\ \A j \in 1..(i - 1) : seq[j] \notin hits]]
    ELSE [found |-> FALSE, rec |-> NoRec]

check_duplicate_block_name(db, name, exclude_id) ==
    \E b \in get_block_by_name(db, name) : exclude_id = Null \/ b.id # exclude_id

\* check_duplicate_vlan_in_block without its test for None: a missing VLAN is
\* compared like a number
null_vlan_compared(db, vlan_id, block_id, exclude_id) ==
    LET P(s) == /\ s.block_id = block_id
                /\ s.vlan_id = vlan_id
                /\ (exclude_id = Null \/ s.id # exclude_id)
    IN  FirstMatch(get_all_subnets(db), {s \in db.subnets : P(s)})

\* check_duplicate_vlan_in_block without its scan: no duplicate is ever found
vlan_check_skipped(db, vlan_id, block_id, exclude_id) == [found |-> FALSE, rec |-> NoRec]

check_duplicate_vlan_in_block(db, vlan_id, block_id, exclude_id) ==
    IF vlan_id = Null THEN [found |-> FALSE, rec |-> NoRec]
    ELSE LET P(s) == /\ s.block_id = block_id
                     /\ s.vlan_id = vlan_id
                     /\ (exclude_id = Null \/ s.id # exclude_id)
         IN  FirstMatch(get_all_subnets(db), {s \in db.subnets : P(s)})

\* check_overlapping_cidr_in_block that scans every subnet of the block,
\* the one named by exclude_id too
overlap_check_without_exclude(db, cidr, block_id, exclude_id) ==
    IF ~IPv4Network(cidr, TRUE) THEN [found |-> FALSE, rec |-> NoRec]
    ELSE LET P(s) == /\ s.block_id = block_id
                     /\ IPv4Network(s.cidr, TRUE)
                     /\ overlaps(cidr, s.cidr)
         IN  FirstMatch(get_all_subnets(db), {s \in db.subnets : P(s)})

\* check_overlapping_cidr_in_block without the comparison of block ids: the
\* subnets of every block are scanned
overlap_check_all_blocks(db, cidr, block_id, exclude_id) ==
    IF ~IPv4Network(cidr, TRUE) THEN [found |-> FALSE, rec |-> NoRec]
    ELSE LET P(s) == /\ (exclude_id = Null \/ s.id # exclude_id)
                     /\ IPv4Network(s.cidr, TRUE)
                     /\ overlaps(cidr, s.cidr)
         IN  FirstMatch(get_all_subnets(db), {s \in db.subnets : P(s)})

check_overlapping_cidr_in_block(db, cidr, block_id, exclude_id) ==
    IF ~IPv4Network(cidr, TRUE) THEN [found |-> FALSE, rec |-> NoRec]
    ELSE LET P(s) == /\ s.block_id = block_id
                     /\ (exclude_id = Null \/ s.id # exclude_id)
                     /\ IPv4Network(s.cidr, TRUE)
                     /\ overlaps(cidr, s.cidr)
         IN  FirstMatch(get_all_subnets(db), {s \in db.subnets : P(s)})

check_overlapping_container_networks(db, base_network, block_id, exclude_id) ==
    IF ~IPv4Network(base_network, TRUE) THEN [found |-> FALSE, rec |-> NoRec]
    ELSE LET P(c) == /\ c.block_id = block_id
                     /\ (exclude_id = Null \/ c.id # exclude_id)
                     /\ IPv4Network(c.base_network, TRUE)
                     /\ overlaps(base_network, c.base_network)
         IN  FirstMatch(get_all_containers(db), {c \in db.containers : P(c)})

\* --------------------------------------------------------- export / import
\* to_dict of the three models; block_name of a row without block is None,
\* written <<>> here
\* Subnet.to_dict with the VLAN left out
subnet_dict_without_vlan(db, s) ==
    [id |-> s.id, block_id |-> s.block_id, name |-> s.name, vlan_id |-> Null,
     cidr |-> s.cidr, block_name |-> <<>>]

BlockToDict(b) ==
    [id |-> b.id, name |-> b.name, position |-> b.position, collapsed |-> b.collapsed]

ContainerToDict(db, c) ==
    [id |-> c.id, block_id |-> c.block_id, name |-> c.name, base_network |-> c.base_network,
     position |-> c.position, block_name |-> BlockName(db, c.block_id)]

SubnetToDict(db, s) ==
    [id |-> s.id, block_id |-> s.block_id, name |-> s.name, vlan_id |-> s.vlan_id,
     cidr |-> s.cidr, block_name |-> BlockName(db, s.block_id)]

export_all_data(db) ==
    LET bs == get_all_blocks(db)
        cs == get_all_containers(db)
        ss == get_all_subnets(db)
    IN  [blocks |-> [i \in 1..Len(bs) |-> BlockToDict(bs[i])],
         containers |-> [i \in 1..Len(cs) |-> ContainerToDict(db, cs[i])],
         subnets |-> [i \in 1..Len(ss) |-> SubnetToDict(db, ss[i])]]

\* json.dumps / json.loads: the text of a document is the document wrapped as
\* [json |-> ...]; a text that is no JSON document is [corrupt |-> TRUE]
json_dumps(data) == [json |-> data]
json_valid(text) == "json" \in DOMAIN text
json_loads(text) == text.json

\* dict.get(key, default)
Get(d, key, default) == IF key \in DOMAIN d THEN d[key] ELSE default

\* a Subnet row that gets a fresh id instead of the id of the document
subnet_row_renumbered(d) ==
    [id |-> d.id + 1, block_id |-> d.block_id, name |-> d.name,
     vlan_id |-> Get(d, "vlan_id", Null), cidr |-> d.cidr]

BlockRow(d) ==
    [id |-> d.id, name |-> d.name, position |-> Get(d, "position", 0),
     collapsed |-> Get(d, "collapsed", FALSE)]
ContainerRow(d) ==
    [id |-> d.id, block_id |-> d.block_id, name |-> d.name,
     base_network |-> d.base_network, position |-> Get(d, "position", 0)]
SubnetRow(d) ==
    [id |-> d.id, block_id |-> d.block_id, name |-> d.name,
     vlan_id |-> Get(d, "vlan_id", Null), cidr |-> d.cidr]

BlockKeys == {"id", "name"}
ContainerKeys == {"id", "block_id", "name", "base_network"}
SubnetKeys == {"id", "block_id", "name", "cidr"}

DataBlocks(data) == Get(data, "blocks", <<>>)
DataContainers(data) == Get(data, "containers", <<>>)
DataSubnets(data) == Get(data, "subnets", <<>>)

\* import_data runs as the steps 1 Subnet.query.delete(), 2
\* NetworkContainer.query.delete(), 3 NetworkBlock.query.delete(), then one
\* step per row of blocks, containers and subnets (db.session.add) and a last
\* step db.session.commit().
ImportSteps(data) ==
    3 + Len(DataBlocks(data)) + Len(DataContainers(data)) + Len(DataSubnets(data)) + 1

Min2(a, b) == IF a < b THEN a ELSE b

\* the rows the open transaction holds after the first k steps
ImportWork(db, data, k) ==
    LET bs == DataBlocks(data)
        cs == DataContainers(data)
        ss == DataSubnets(data)
        nb == Len(bs)
        nc == Len(cs)
    IN  [subnets |-> IF k >= 1
                     THEN {SubnetRow(ss[i]) : i \in 1..Min2(k - 3 - nb - nc, Len(ss))}
                     ELSE db.subnets,
         containers |-> IF k >= 2
                        THEN {ContainerRow(cs[i]) : i \in 1..Min2(k - 3 - nb, nc)}
                        ELSE db.containers,
         blocks |-> IF k >= 3
                    THEN {BlockRow(bs[i]) : i \in 1..Min2(k - 3, nb)}
                    ELSE db.blocks]

\* the steps at which the data itself makes import_data raise: KeyError when
\* a row lacks a key that is read with [], IntegrityError at the commit for a
\* repeated primary key or block name
DataFailSteps(data) ==
    LET bs == DataBlocks(data)
        cs == DataContainers(data)
        ss == DataSubnets(data)
        nb == Len(bs)
        nc == Len(cs)
    IN  {3 + i : i \in {j \in 1..nb : ~(BlockKeys \subseteq DOMAIN bs[j])}}
        \cup {3 + nb + i : i \in {j \in 1..nc : ~(ContainerKeys \subseteq DOMAIN cs[j])}}
        \cup {3 + nb + nc + i : i \in {j \in 1..Len(ss) : ~(SubnetKeys \subseteq DOMAIN ss[j])}}

DataIntegrityError(data) ==
    LET bs == DataBlocks(data)
        Dup(seq) == \E i, j \in 1..Len(seq) : i # j /\ seq[i].id = seq[j].id
    IN  \/ Dup(bs)
        \/ Dup(DataContainers(data))
        \/ Dup(DataSubnets(data))
        \/ \E i, j \in 1..Len(bs) : i # j /\ bs[i].name = bs[j].name

\* a rollback that leaves the work of the transaction in place
rollback_ignored(db, work) == work

\* db.session.rollback(): the transaction's work is discarded
Rollback(db, work) == db

\* import_data(data) when the storage raises at step failAt (0: it never
\* does): [ok, db]
import_data(db, data, failAt) ==
    LET n == ImportSteps(data)
        fails == (IF failAt > 0 /\ failAt <= n THEN {failAt} ELSE {})
                 \cup DataFailSteps(data)
        first == IF fails = {} THEN 0 ELSE CHOOSE f \in fails : \A g \in fails : f <= g
    IN  IF first # 0
        THEN [ok |-> FALSE, db |-> Rollback(db, ImportWork(db, data, first - 1))]
        ELSE IF DataIntegrityError(data)
        THEN [ok |-> FALSE, db |-> Rollback(db, ImportWork(db, data, n - 1))]
        ELSE [ok |-> TRUE, db |-> ImportWork(db, data, n - 1)]

\* documents given to import_data: an empty one, one that leaves out the
\* optional keys, a complete one, and three that make the import raise (a
\* subnet without "cidr", a repeated block id, a repeated block name)
ImportInputs ==
    << [k \in {} |-> <<>>],
       [blocks |-> <<[id |-> 5, name |-> <<65>>]>>,
        subnets |-> <<[id |-> 3, block_id |-> 5, name |-> <<110>>,
                       cidr |-> [form |-> "cidr", addr |-> 167772160, plen |-> 24]]>>],
       [blocks |-> <<[id |-> 1, name |-> <<65>>, position |-> 2, collapsed |-> TRUE],
                     [id |-> 2, name |-> <<66>>, position |-> 1, collapsed |-> FALSE]>>,
        containers |-> <<[id |-> 1, block_id |-> 2, name |-> <<99>>, position |-> 1,
                          base_network |-> [form |-> "cidr", addr |-> 167772160, plen |-> 16],
                          block_name |-> <<66>>]>>,
        subnets |-> <<[id |-> 1, block_id |-> 1, name |-> <<110>>, vlan_id |-> 100,
                       cidr |-> [form |-> "cidr", addr |-> 167772160, plen |-> 24],
                       block_name |-> <<65>>],
                      [id |-> 2, block_id |-> 2, name |-> <<110>>, vlan_id |-> Null,
                       cidr |-> [form |-> "cidr", addr |-> 167772160, plen |-> 24],
                       block_name |-> <<66>>]>>],
       [blocks |-> <<[id |-> 1, name |-> <<65>>]>>,
        subnets |-> <<[id |-> 1, block_id |-> 1, name |-> <<110>>]>>],
       [blocks |-> <<[id |-> 1, name |-> <<65>>], [id |-> 1, name |-> <<66>>]>>],
       [blocks |-> <<[id |-> 1, name |-> <<65>>], [id |-> 2, name |-> <<65>>]>>] >>

\* ------------------------------------------------------------------ state
VARIABLES
    db,          \* the committed rows: [blocks, containers, subnets]
    change_log,  \* the change_log table, in insertion order
    resp,        \* the response to the last request
    before,      \* the committed rows when the last request arrived
    undo,        \* set by a restore that follows a restore: the rows
                 \* stored before the earlier restore
    fault,       \* what the storage does to the next statements: "none",
                 \* or "write": every db.session.commit() of a data row raises
    inflight     \* the requests that are being served in parallel with the
                 \* others, each with what its handler holds between two of
                 \* its statements

vars == <<db, change_log, resp, before, undo, fault, inflight>>

\* the requests the server handles in parallel, and a request that holds
\* nothing
Requests == 1..MaxRequests
Idle == [pc |-> "idle"]

EmptyDb == [blocks |-> {}, containers |-> {}, subnets |-> {}]
NoUndo == [armed |-> FALSE, db |-> EmptyDb]

\* What the caller sees of the last request: the handler, the kind of result,
\* for a conflict the block of the request, the field and the conflicting
\* row, and for a restore or an import the snapshot id or the input given
Response(op, status) ==
    [op |-> op, status |-> status, block_id |-> 0, field |-> "none", conflict |-> NoRec,
     target |-> 0]

ConflictResponse(op, block_id, field, rec) ==
    [op |-> op, status |-> "conflict", block_id |-> block_id, field |-> field,
     conflict |-> [id |-> rec.id, block_id |-> rec.block_id], target |-> 0]

Init ==
    /\ db = EmptyDb
    /\ change_log = <<>>
    /\ resp = Response("none", "none")
    /\ before = EmptyDb
    /\ undo = NoUndo
    /\ fault = "none"
    /\ inflight = [p \in Requests |-> Idle]

\* an add_change_log that writes its row twice
add_change_log_twice(log, action, block, content) ==
    log \o <<[id |-> Len(log) + 1, action |-> action, block |-> block, content |-> content],
             [id |-> Len(log) + 2, action |-> action, block |-> block, content |-> content]>>

\* an add_change_log that keeps the two latest rows only
add_change_log_limited(log, action, block, content) ==
    LET kept == IF Len(log) >= 2 THEN Tail(log) ELSE log
    IN  Append(kept, [id |-> (IF log = <<>> THEN 0 ELSE log[Len(log)].id) + 1,
                      action |-> action, block |-> block, content |-> content])

\* DatabaseService.add_change_log: one more row, id from the autoincrement
add_change_log(log, action, block, content) ==
    Append(log, [id |-> Len(log) + 1, action |-> action,
                 block |-> IF block = <<>> THEN <<45>> ELSE block, content |-> content])

\* the two lines every handler runs after its write:
\*   content = json.dumps(DatabaseService.export_all_data())
\*   DatabaseService.add_change_log(action=..., block=..., content=content)
LogSnapshot(action, block, newdb) ==
    change_log' = add_change_log(change_log, action, block, json_dumps(export_all_data(newdb)))

\* a request that ends without a commit: the session is discarded with the
\* request, nothing is stored and nothing is logged
Rejected(r) ==
    /\ resp' = r
    /\ before' = db
    /\ undo' = NoUndo
    /\ UNCHANGED <<db, change_log, fault, inflight>>

\* the db.session.commit() of the handler raised: the except branch (or the
\* end of the request) rolls the transaction back, the answer is an error and
\* no change-log row is written
WriteFailed(op) ==
    /\ resp' = Response(op, "error")
    /\ before' = db
    /\ undo' = NoUndo
    /\ UNCHANGED <<db, change_log, fault, inflight>>

\* The handler committed newdb and the two lines after the write failed.
\* fault = "log": the commit inside add_change_log raised; add_change_log
\* rolls its row back and returns False, which no handler reads.
\* fault = "export": export_all_data raised; the exception leaves the
\* handler through its outer except clause, which answers with an error
LogFailed(op, newdb) ==
    /\ db' = newdb
    /\ resp' = Response(op, IF fault = "export" THEN "error" ELSE "ok")
    /\ before' = db
    /\ undo' = NoUndo
    /\ UNCHANGED <<change_log, fault, inflight>>

\* a request that reached its commit of newdb and then logged the snapshot
Committed(op, action, block, newdb) ==
    IF fault = "write" THEN WriteFailed(op)
    ELSE IF fault \in {"log", "export"} THEN LogFailed(op, newdb)
    ELSE /\ \E d \in {newdb} : db' = d /\ LogSnapshot(action, block, d)
         /\ resp' = Response(op, "ok")
         /\ before' = db
         /\ undo' = NoUndo
         /\ UNCHANGED <<fault, inflight>>

\* a request that reached its commit of newdb and writes no change-log row
CommittedUnlogged(op, newdb) ==
    IF fault = "write" THEN WriteFailed(op)
    ELSE /\ db' = newdb
         /\ resp' = Response(op, "ok")
         /\ before' = db
         /\ undo' = NoUndo
         /\ UNCHANGED <<change_log, fault, inflight>>

\* a request whose transaction ended in db.session.rollback()
RolledBack(op, status, target, d) ==
    /\ db' = d
    /\ resp' = [Response(op, status) EXCEPT !.target = target]
    /\ before' = db
    /\ undo' = NoUndo
    /\ UNCHANGED <<change_log, fault, inflight>>

\* ------------------------------------------------------------------ inputs
NameA == <<65>>
NameB == <<66>>
BlockNameInputs == {NameA, NameB, <<>>}
SubnetNameInputs == {<<110>>}
SubnetIdInputs == 1..(MaxSubnets + 1)
BlockIdInputs == 1..(MaxBlocks + 1)

Cidr(addr, plen) == [form |-> "cidr", addr |-> addr, plen |-> plen]
Net10 == 10 * Pow2(24)                      \* 10.0.0.0
ValidCidrInputs ==
    { Cidr(Net10, 24),            \* 10.0.0.0/24
      Cidr(Net10 + 5, 24),        \* 10.0.0.5/24, host bits set
      Cidr(Net10 + 128, 25),      \* 10.0.0.128/25, inside 10.0.0.0/24
      Cidr(Net10 + 256, 24) }     \* 10.0.1.0/24
NoMaskCidr == [form |-> "addr", addr |-> Net10, plen |-> 32]   \* 10.0.0.0
CidrInputs == ValidCidrInputs \cup {NoMaskCidr}

VlanText(n) == [form |-> "digits", n |-> n]
EmptyText == [form |-> "empty", n |-> 0]

\* the form fields name, vlan_id, cidr posted to /add_subnet and /edit_subnet
SubnetFormInputs ==
    {[name |-> <<110>>, vlan_id |-> v, cidr |-> c] :
        v \in {EmptyText, VlanText(100)}, c \in ValidCidrInputs}
    \cup {[name |-> <<110>>, vlan_id |-> VlanText(200), cidr |-> Cidr(Net10 + 256, 24)],
          [name |-> <<110>>, vlan_id |-> VlanText(4095), cidr |-> Cidr(Net10, 24)],
          [name |-> <<110>>, vlan_id |-> EmptyText, cidr |-> NoMaskCidr],
          [name |-> <<39>>, vlan_id |-> EmptyText, cidr |-> Cidr(Net10, 24)]}

\* ----------------------------------------------------------------- blocks
create_block(d, name) ==
    LET max_position == IF d.blocks = {} THEN 0 ELSE Max({b.position : b \in d.blocks})
        block == [id |-> NextId(d.blocks), name |-> name,
                  position |-> max_position + 1, collapsed |-> FALSE]
    IN  [d EXCEPT !.blocks = @ \cup {block}]

\* POST /add_block
add_block_route(name_raw) ==
    /\ Len(change_log) < MaxLog
    /\ Cardinality(db.blocks) < MaxBlocks
    /\ \E name \in {sanitize_input(name_raw)} :
       IF ~validate_block_name(name)
       THEN Rejected(Response("add_block", "validation"))
       ELSE IF check_duplicate_block_name(db, name, Null)
       THEN Rejected(Response("add_block", "conflict"))
       ELSE Committed("add_block", "ADD_BLOCK", name, create_block(db, name))

\* ---------------------------------------------------------------- subnets
create_subnet(d, block_id, name, vlan_id, cidr) ==
    [d EXCEPT !.subnets = @ \cup {[id |-> NextId(d.subnets), block_id |-> block_id,
                                   name |-> name, vlan_id |-> vlan_id, cidr |-> cidr]}]

update_subnet(d, subnet_id, name, vlan_id, cidr) ==
    [d EXCEPT !.subnets = {IF s.id = subnet_id
                           THEN [s EXCEPT !.name = name, !.vlan_id = vlan_id, !.cidr = cidr]
                           ELSE s : s \in @}]

\* _validate_subnet_basic_input: [ok, name, cidr, vlan_id]
validate_subnet_basic_input(name_raw, cidr_raw, vlan_id_raw) ==
    LET name == sanitize_input(name_raw)
        v == IF vlan_id_raw.form # "empty" THEN validate_vlan_id(vlan_id_raw)
             ELSE [ok |-> TRUE, vlan |-> Null]
    IN  [ok |-> validate_subnet_name(name) /\ validate_cidr_format(cidr_raw) /\ v.ok,
         name |-> name, cidr |-> cidr_raw, vlan_id |-> v.vlan]

\* _check_subnet_conflicts / _check_subnet_update_conflicts: the VLAN check
\* runs only for a truthy vlan_id, then the CIDR check; [found, field, rec]
check_subnet_conflicts(d, cidr, vlan_id, block_id, exclude_id) ==
    LET dv == IF vlan_id # Null /\ vlan_id # 0
              THEN check_duplicate_vlan_in_block(d, vlan_id, block_id, exclude_id)
              ELSE [found |-> FALSE, rec |-> NoRec]
        dc == check_overlapping_cidr_in_block(d, cidr, block_id, exclude_id)
    IN  IF dv.found THEN [found |-> TRUE, field |-> "vlan_id", rec |-> dv.rec]
        ELSE IF dc.found THEN [found |-> TRUE, field |-> "cidr", rec |-> dc.rec]
        ELSE [found |-> FALSE, field |-> "none", rec |-> NoRec]

\* POST /add_subnet
add_subnet(block_id, name_raw, vlan_id_raw, cidr_raw) ==
    /\ Len(change_log) < MaxLog
    /\ Cardinality(db.subnets) < MaxSubnets
    /\ IF get_block_by_id(db, block_id) = {}
       THEN Rejected(Response("add_subnet", "not_found"))
       ELSE \E v \in {validate_subnet_basic_input(name_raw, cidr_raw, vlan_id_raw)} :
            IF ~v.ok
            THEN Rejected(Response("add_subnet", "validation"))
            ELSE \E c \in {check_subnet_conflicts(db, v.cidr, v.vlan_id, block_id, Null)} :
                 IF c.found
                 THEN Rejected(ConflictResponse("add_subnet", block_id, c.field, c.rec))
                 ELSE Committed("add_subnet", "ADD_SUBNET", BlockName(db, block_id),
                                create_subnet(db, block_id, v.name, v.vlan_id, v.cidr))

\* POST /edit_subnet/<subnet_id>
edit_subnet(subnet_id, name_raw, vlan_id_raw, cidr_raw) ==
    /\ Len(change_log) < MaxLog
    /\ IF get_subnet_by_id(db, subnet_id) = {}
       THEN Rejected(Response("edit_subnet", "not_found"))
       ELSE \E subnet \in get_subnet_by_id(db, subnet_id),
               v \in {validate_subnet_basic_input(name_raw, cidr_raw, vlan_id_raw)} :
            IF ~v.ok
            THEN Rejected(Response("edit_subnet", "validation"))
            ELSE \E c \in {check_subnet_conflicts(db, v.cidr, v.vlan_id,
                                                  subnet.block_id, subnet_id)} :
                 IF c.found
                 THEN Rejected(ConflictResponse("edit_subnet", subnet.block_id, c.field, c.rec))
                 ELSE Committed("edit_subnet", "EDIT_SUBNET", BlockName(db, subnet.block_id),
                                update_subnet(db, subnet_id, v.name, v.vlan_id, v.cidr))

\* A JSON value of a request body, as far as the handlers read it:
\* [t, n, s] with t "null", "int" (the number n) or "str" (the VLAN text s)
JNull == [t |-> "null", n |-> 0, s |-> EmptyText]
JInt(n) == [t |-> "int", n |-> n, s |-> EmptyText]
JStr(s) == [t |-> "str", n |-> 0, s |-> s]
JsonVlanInputs == {JNull, JInt(0), JInt(100), JInt(200)}

\* Python truth value of a JSON value, and str() of it as a VLAN text
Truthy(j) == (j.t = "int" /\ j.n # 0) \/ (j.t = "str" /\ j.s.form # "empty")
Str(j) ==
    CASE j.t = "int" -> IF j.n >= 0 THEN VlanText(j.n) ELSE [form |-> "other", n |-> 0]
      [] j.t = "str" -> j.s
      [] OTHER -> [form |-> "other", n |-> 0]

\* POST /api/networks (NetworkList.post); data is the JSON object
\* the validated fields of the body: [ok, name, cidr, vlan_id]
NetworkList_post_fields(data) ==
    LET name == sanitize_input(data.name)
        vlan_id_raw == Get(data, "vlan_id", JStr(EmptyText))
        v == IF Truthy(vlan_id_raw) THEN validate_vlan_id(Str(vlan_id_raw))
             ELSE [ok |-> TRUE, vlan |-> Null]
    IN  [ok |-> validate_subnet_name(name) /\ validate_cidr_format(data.cidr) /\ v.ok,
         name |-> name, cidr |-> data.cidr, vlan_id |-> v.vlan]

NetworkList_post(data) ==
    /\ Len(change_log) < MaxLog
    /\ Cardinality(db.subnets) < MaxSubnets
    /\ IF ~({"block_id", "name", "cidr"} \subseteq DOMAIN data)
       THEN Rejected(Response("create_network", "validation"))
       ELSE IF get_block_by_id(db, data.block_id) = {}
       THEN Rejected(Response("create_network", "not_found"))
       ELSE \E v \in {NetworkList_post_fields(data)} :
            IF ~v.ok
            THEN Rejected(Response("create_network", "validation"))
            ELSE \E c \in {check_subnet_conflicts(db, v.cidr, v.vlan_id, data.block_id, Null)} :
                 IF c.found
                 THEN Rejected(ConflictResponse("create_network", data.block_id,
                                                c.field, c.rec))
                 ELSE Committed("create_network", "ADD_SUBNET", BlockName(db, data.block_id),
                                create_subnet(db, data.block_id, v.name, v.vlan_id, v.cidr))

\* PUT /api/networks/<network_id> (Network.put).  The handler changes the
\* loaded row field by field and returns at the first field it rejects; the
\* row is written by the db.session.commit() after the last field only.
\* [status, field, rec, row]
Network_put_fields(d, subnet, data) ==
    LET name == sanitize_input(Get(data, "name", <<>>))
        nameBad == "name" \in DOMAIN data /\ ~validate_subnet_name(name)
        row1 == IF "name" \in DOMAIN data THEN [subnet EXCEPT !.name = name] ELSE subnet
        cidr == Get(data, "cidr", subnet.cidr)
        cidrBad == "cidr" \in DOMAIN data /\ ~validate_cidr_format(cidr)
        oc == IF "cidr" \in DOMAIN data /\ ~cidrBad
              THEN check_overlapping_cidr_in_block(d, cidr, subnet.block_id, subnet.id)
              ELSE [found |-> FALSE, rec |-> NoRec]
        row2 == [row1 EXCEPT !.cidr = cidr]
        raw == Get(data, "vlan_id", JNull)
        clear == raw.t = "null" \/ (raw.t = "str" /\ raw.s.form = "empty")
        v == IF "vlan_id" \in DOMAIN data /\ ~clear THEN validate_vlan_id(Str(raw))
             ELSE [ok |-> TRUE, vlan |-> Null]
        dv == IF "vlan_id" \in DOMAIN data /\ ~clear /\ v.ok
              THEN check_duplicate_vlan_in_block(d, v.vlan, subnet.block_id, subnet.id)
              ELSE [found |-> FALSE, rec |-> NoRec]
        row3 == IF "vlan_id" \in DOMAIN data THEN [row2 EXCEPT !.vlan_id = v.vlan] ELSE row2
    IN  IF nameBad THEN [status |-> "validation", field |-> "name", rec |-> NoRec, row |-> subnet]
        ELSE IF cidrBad
        THEN [status |-> "validation", field |-> "cidr", rec |-> NoRec, row |-> row1]
        ELSE IF oc.found
        THEN [status |-> "conflict", field |-> "cidr", rec |-> oc.rec, row |-> row1]
        ELSE IF ~v.ok
        THEN [status |-> "validation", field |-> "vlan_id", rec |-> NoRec, row |-> row2]
        ELSE IF dv.found
        THEN [status |-> "conflict", field |-> "vlan_id", rec |-> dv.rec, row |-> row2]
        ELSE [status |-> "ok", field |-> "none", rec |-> NoRec, row |-> row3]

\* a Network.put that commits the loaded row after every field it accepted
Network_put_field_by_field(network_id, data) ==
    /\ Len(change_log) < MaxLog
    /\ IF get_subnet_by_id(db, network_id) = {}
       THEN Rejected(Response("update_network", "not_found"))
       ELSE \E subnet \in get_subnet_by_id(db, network_id) :
            \E r \in {Network_put_fields(db, subnet, data)} :
            \E newdb \in {[db EXCEPT !.subnets = (@ \ {subnet}) \cup {r.row}]} :
               IF r.status = "ok"
               THEN Committed("update_network", "UPDATE_SUBNET",
                              BlockName(db, subnet.block_id), newdb)
               ELSE RolledBack("update_network", r.status, 0, newdb)

Network_put(network_id, data) ==
    /\ Len(change_log) < MaxLog
    /\ IF get_subnet_by_id(db, network_id) = {}
       THEN Rejected(Response("update_network", "not_found"))
       ELSE IF DOMAIN data = {}
       THEN Rejected(Response("update_network", "validation"))
       ELSE \E subnet \in get_subnet_by_id(db, network_id) :
            \E r \in {Network_put_fields(db, subnet, data)} :
            \E newdb \in {[db EXCEPT !.subnets = (@ \ {subnet}) \cup {r.row}]} :
               IF r.status = "conflict"
               THEN Rejected(ConflictResponse("update_network", subnet.block_id,
                                              r.field, r.rec))
               ELSE IF r.status # "ok"
               THEN Rejected(Response("update_network", r.status))
               ELSE IF r.row # subnet
               THEN Committed("update_network", "UPDATE_SUBNET",
                              BlockName(db, subnet.block_id), newdb)
               ELSE CommittedUnlogged("update_network", newdb)

\* the JSON bodies sent to the two network endpoints
ApiName == <<110>>
NetworkPostInputs ==
    {[block_id |-> b, name |-> ApiName, cidr |-> c] :
        b \in BlockIdInputs, c \in ValidCidrInputs}
    \cup {[block_id |-> b, name |-> ApiName, cidr |-> c, vlan_id |-> JInt(100)] :
            b \in BlockIdInputs, c \in ValidCidrInputs}
    \cup {[block_id |-> 1, name |-> ApiName, cidr |-> Cidr(Net10 + 256, 24), vlan_id |-> JInt(200)],
          [block_id |-> 1, name |-> ApiName, cidr |-> Cidr(Net10, 24), vlan_id |-> JInt(0)],
          [block_id |-> 1, name |-> ApiName, cidr |-> Cidr(Net10, 24), vlan_id |-> JInt(4095)],
          [block_id |-> 1, name |-> ApiName, cidr |-> NoMaskCidr],
          [block_id |-> 1, name |-> ApiName]}

NetworkPutInputs ==
    {[name |-> n] : n \in SubnetNameInputs}
    \cup {[cidr |-> c] : c \in CidrInputs}
    \cup {[vlan_id |-> v] : v \in JsonVlanInputs}
    \cup {[cidr |-> c, vlan_id |-> JInt(100)] : c \in ValidCidrInputs}
    \cup {[name |-> <<39>>, cidr |-> Cidr(Net10, 24)], [k \in {} |-> JNull]}

NextNet ==
    \/ \E n \in BlockNameInputs : add_block_route(n)
    \/ \E b \in BlockIdInputs, f \in SubnetFormInputs :
          add_subnet(b, f.name, f.vlan_id, f.cidr)
    \/ \E i \in SubnetIdInputs, f \in SubnetFormInputs :
          edit_subnet(i, f.name, f.vlan_id, f.cidr)
    \/ \E d \in NetworkPostInputs : NetworkList_post(d)
    \/ \E i \in SubnetIdInputs, d \in NetworkPutInputs : Network_put(i, d)

SpecNet == Init /\ [][NextNet]_vars

\* C1: any two distinct subnets stored in the same block have address ranges
\* that do not intersect, whatever request produced them (a CIDR written with
\* host bits such as 10.0.0.5/24 stands for the network it lies in)
SubnetsDisjoint ==
    \A s, t \in db.subnets :
        (s.id # t.id /\ s.block_id = t.block_id) => ~overlaps(s.cidr, t.cidr)

\* ------------------------------------------------------------- containers
\* DatabaseService.create_container: [ok, db]; the position is one more than
\* the largest position among the containers of the block
create_container(d, block_id, name, base_network) ==
    LET inBlock == {c.position : c \in {x \in d.containers : x.block_id = block_id}}
        max_position == IF inBlock = {} THEN 0 ELSE Max(inBlock)
        container == [id |-> NextId(d.containers), block_id |-> block_id, name |-> name,
                      base_network |-> base_network, position |-> max_position + 1]
    IN  IF ~IPv4Network(base_network, FALSE) \/ get_block_by_id(d, block_id) = {}
        THEN [ok |-> FALSE, db |-> d]
        ELSE [ok |-> TRUE, db |-> [d EXCEPT !.containers = @ \cup {container}]]

\* _validate_container_basic_input: [ok, name, base_network]
validate_container_basic_input(name_raw, base_network_raw) ==
    LET name == sanitize_input(name_raw) IN
    [ok |-> name # <<>> /\ base_network_raw.form # "empty"
            /\ validate_cidr_format(base_network_raw),
     name |-> name, base_network |-> base_network_raw]

\* POST /add_container
add_container_route(block_id, name_raw, base_network_raw) ==
    /\ Len(change_log) < MaxLog
    /\ Cardinality(db.containers) < MaxContainers
    /\ \E v \in {validate_container_basic_input(name_raw, base_network_raw)} :
       IF ~v.ok
       THEN Rejected(Response("add_container", "validation"))
       ELSE \E c \in {check_overlapping_container_networks(db, v.base_network, block_id, Null)} :
            IF c.found
            THEN Rejected(ConflictResponse("add_container", block_id, "base_network", c.rec))
            ELSE \E r \in {create_container(db, block_id, v.name, v.base_network)} :
                 IF ~r.ok
                 THEN Rejected(Response("add_container", "not_found"))
                 ELSE Committed("add_container", "ADD_CONTAINER", BlockName(db, block_id), r.db)

\* POST /api/containers (ContainerList.post)
ContainerList_post(data) ==
    /\ Len(change_log) < MaxLog
    /\ Cardinality(db.containers) < MaxContainers
    /\ IF ~({"block_id", "name", "base_network"} \subseteq DOMAIN data)
       THEN Rejected(Response("create_container", "validation"))
       ELSE IF get_block_by_id(db, data.block_id) = {}
       THEN Rejected(Response("create_container", "not_found"))
       ELSE \E name \in {sanitize_input(data.name)} :
            IF name = <<>> \/ Strip(name) = <<>> \/ ~validate_cidr_format(data.base_network)
            THEN Rejected(Response("create_container", "validation"))
            ELSE \E r \in {create_container(db, data.block_id, name, data.base_network)} :
                 IF ~r.ok
                 THEN Rejected(Response("create_container", "validation"))
                 ELSE Committed("create_container", "ADD_CONTAINER",
                                BlockName(db, data.block_id), r.db)

\* PUT /api/containers/<container_id> (Container.put): the fields are set
\* one by one on the loaded row, which is written by the commit after the
\* last field; [ok, row]
Container_put_fields(container, data) ==
    LET row1 == IF "name" \in DOMAIN data
                THEN [container EXCEPT !.name = sanitize_input(data.name)] ELSE container
        bad == "base_network" \in DOMAIN data /\ ~validate_cidr_format(data.base_network)
        row2 == IF "base_network" \in DOMAIN data
                THEN [row1 EXCEPT !.base_network = data.base_network] ELSE row1
        row3 == IF "position" \in DOMAIN data
                THEN [row2 EXCEPT !.position = data.position] ELSE row2
    IN  [ok |-> ~bad, row |-> row3]

Container_put(container_id, data) ==
    /\ Len(change_log) < MaxLog
    /\ IF get_container_by_id(db, container_id) = {}
       THEN Rejected(Response("update_container", "not_found"))
       ELSE IF DOMAIN data = {}
       THEN Rejected(Response("update_container", "validation"))
       ELSE \E container \in get_container_by_id(db, container_id) :
            \E r \in {Container_put_fields(container, data)} :
            \E newdb \in {[db EXCEPT !.containers = (@ \ {container}) \cup {r.row}]} :
               IF ~r.ok
               THEN Rejected(Response("update_container", "validation"))
               ELSE IF r.row # container
               THEN Committed("update_container", "UPDATE_CONTAINER",
                              BlockName(db, container.block_id), newdb)
               ELSE CommittedUnlogged("update_container", newdb)

ContainerName == <<99>>
ContainerIdInputs == 1..(MaxContainers + 1)
ContainerCidrInputs ==
    { Cidr(Net10, 16),            \* 10.0.0.0/16
      Cidr(Net10 + 256, 24),      \* 10.0.1.0/24, inside 10.0.0.0/16
      Cidr(Net10 + 65536, 16) }   \* 10.1.0.0/16
ContainerFormInputs ==
    {[name |-> ContainerName, base_network |-> c] : c \in ContainerCidrInputs}
    \cup {[name |-> ContainerName, base_network |-> NoMaskCidr],
          [name |-> <<>>, base_network |-> Cidr(Net10, 16)]}
ContainerPostInputs ==
    {[block_id |-> b, name |-> ContainerName, base_network |-> c] :
        b \in BlockIdInputs, c \in ContainerCidrInputs}
    \cup {[block_id |-> 1, name |-> ContainerName, base_network |-> NoMaskCidr],
          [block_id |-> 1, name |-> <<32>>, base_network |-> Cidr(Net10, 16)],
          [block_id |-> 1, name |-> ContainerName]}
ContainerPutInputs ==
    {[base_network |-> c] : c \in ContainerCidrInputs \cup {NoMaskCidr}}
    \cup {[name |-> <<100>>], [position |-> 1], [position |-> 2],
          [name |-> ContainerName, base_network |-> Cidr(Net10, 16)],
          [k \in {} |-> JNull]}

NextCont ==
    \/ \E n \in BlockNameInputs : add_block_route(n)
    \/ \E b \in BlockIdInputs, f \in ContainerFormInputs :
          add_container_route(b, f.name, f.base_network)
    \/ \E d \in ContainerPostInputs : ContainerList_post(d)
    \/ \E i \in ContainerIdInputs, d \in ContainerPutInputs : Container_put(i, d)

SpecCont == Init /\ [][NextCont]_vars

\* C9: any two distinct containers stored in the same block have base
\* networks that do not overlap, after every container create and update of
\* the web form and of the API
ContainersDisjoint ==
    \A c, e \in db.containers :
        (c.id # e.id /\ c.block_id = e.block_id) => ~overlaps(c.base_network, e.base_network)

\* C2: any two distinct subnets stored in the same block that both have a
\* VLAN have different VLANs, after every create and update request of the
\* web forms and of the API
VlanUniqueInBlock ==
    \A s, t \in db.subnets :
        (s.id # t.id /\ s.block_id = t.block_id /\ s.vlan_id # Null) => s.vlan_id # t.vlan_id

\* a subnet update has just succeeded in a block that holds two subnets with
\* a VLAN each
VlanUniqueInBlock_witness ==
    /\ resp.op \in {"edit_subnet", "update_network"}
    /\ resp.status = "ok"
    /\ \E s, t \in db.subnets :
          /\ s.id # t.id /\ s.block_id = t.block_id
          /\ s.vlan_id # Null /\ t.vlan_id # Null
          /\ s \notin before.subnets

\* ------------------------------------------------- block updates of the API
\* POST /api/toggle_collapse/<block_id> (ToggleCollapse.post)
ToggleCollapse_post(block_id) ==
    IF get_block_by_id(db, block_id) = {}
    THEN Rejected(Response("toggle_collapse", "not_found"))
    ELSE CommittedUnlogged("toggle_collapse",
            [db EXCEPT !.blocks = {IF b.id = block_id
                                   THEN [b EXCEPT !.collapsed = ~b.collapsed] ELSE b : b \in @}])

\* the loop of BlockOrder.post over data["blocks"], from item i on
RECURSIVE SetPositions(_, _, _)
SetPositions(blocks, items, i) ==
    IF i > Len(items) THEN blocks
    ELSE LET block_id == Get(items[i], "id", Null)
             position == Get(items[i], "position", Null)
         IN  IF block_id # Null /\ block_id # 0 /\ position # Null
             THEN SetPositions({IF b.id = block_id THEN [b EXCEPT !.position = position]
                                ELSE b : b \in blocks}, items, i + 1)
             ELSE SetPositions(blocks, items, i + 1)

\* POST /api/update_block_order (BlockOrder.post)
BlockOrder_post(data) ==
    IF "blocks" \notin DOMAIN data
    THEN Rejected(Response("update_block_order", "validation"))
    ELSE CommittedUnlogged("update_block_order",
            [db EXCEPT !.blocks = SetPositions(@, data.blocks, 1)])

\* PUT /api/blocks/<block_id> (Block.put).  check_duplicate_block_name is
\* called without exclude_id and its second result is a dict, so that
\* existing_block.id raises AttributeError whenever a block of that name
\* exists; the handler's except clause answers 500.  [status, row]
Block_put_fields(d, block, data) ==
    LET name == sanitize_input(Get(data, "name", <<>>))
        row1 == IF "name" \in DOMAIN data THEN [block EXCEPT !.name = name] ELSE block
        row2 == IF "position" \in DOMAIN data
                THEN [row1 EXCEPT !.position = data.position] ELSE row1
        row3 == IF "collapsed" \in DOMAIN data
                THEN [row2 EXCEPT !.collapsed = data.collapsed] ELSE row2
    IN  IF "name" \in DOMAIN data /\ ~validate_block_name(name)
        THEN [status |-> "validation", row |-> block]
        ELSE IF "name" \in DOMAIN data /\ check_duplicate_block_name(d, name, Null)
        THEN [status |-> "error", row |-> block]
        ELSE [status |-> "ok", row |-> row3]

Block_put(block_id, data) ==
    IF get_block_by_id(db, block_id) = {}
    THEN Rejected(Response("update_block", "not_found"))
    ELSE IF DOMAIN data = {}
    THEN Rejected(Response("update_block", "validation"))
    ELSE \E block \in get_block_by_id(db, block_id) :
         \E r \in {Block_put_fields(db, block, data)} :
         \E newdb \in {[db EXCEPT !.blocks = (@ \ {block}) \cup {r.row}]} :
            IF r.status # "ok"
            THEN Rejected(Response("update_block", r.status))
            ELSE IF "name" \in DOMAIN data
            THEN Len(change_log) < MaxLog
                 /\ Committed("update_block", "UPDATE_BLOCK", r.row.name, newdb)
            ELSE CommittedUnlogged("update_block", newdb)

\* ------------------------------------------------------------------ restore
\* The column content of a change-log row: the text json.dumps wrote,
\* [json |-> ...]; a text that is no JSON document, [corrupt |-> TRUE]; the
\* empty text, [empty |-> TRUE]; NULL, [null |-> TRUE]
NullContent == [null |-> TRUE]
EmptyContent == [empty |-> TRUE]
CorruptContent == [corrupt |-> TRUE]

\* a get_snapshot_by_id without the filter on content
get_snapshot_any_content(log, snap_id) ==
    {e \in {log[i] : i \in 1..Len(log)} : e.id = snap_id}

\* DatabaseService.get_snapshot_by_id: the entry of that id, if it has content
get_snapshot_by_id(log, snap_id) ==
    {e \in {log[i] : i \in 1..Len(log)} : e.id = snap_id /\ e.content # NullContent}

\* the step of import_data at which the storage raises: the step asked for,
\* or the commit when every commit of data rows raises
FailStep(data, failAt) ==
    IF fault = "write" /\ failAt = 0 THEN ImportSteps(data) ELSE failAt

\* POST /restore_snapshot/<snap_id>; the storage raises at step failAt of
\* import_data (0: never).  When the two lines that log the restore fail
\* (fault = "log" or "export") the imported rows stay and no entry is written
restore_snapshot(snap_id, failAt) ==
    /\ Len(change_log) < MaxLog
    /\ IF get_snapshot_by_id(change_log, snap_id) = {}
       THEN Rejected(Response("restore", "not_found"))
       ELSE \E snap \in get_snapshot_by_id(change_log, snap_id) :
            IF snap.content \in {NullContent, EmptyContent}
            THEN Rejected(Response("restore", "content_missing"))
            ELSE IF ~json_valid(snap.content)
            THEN Rejected(Response("restore", "error"))
            ELSE \E r \in {import_data(db, json_loads(snap.content),
                                         FailStep(json_loads(snap.content), failAt))} :
                 IF ~r.ok
                 THEN RolledBack("restore", "import_failed", snap_id, r.db)
                 ELSE IF fault \in {"log", "export"}
                 THEN RolledBack("restore", IF fault = "export" THEN "error" ELSE "ok",
                                 snap_id, r.db)
                 ELSE /\ db' = r.db
                      /\ change_log' = add_change_log(change_log, "RESTORE", <<45>>,
                                                      json_dumps(export_all_data(r.db)))
                      /\ resp' = [Response("restore", "ok") EXCEPT !.target = snap_id]
                      /\ before' = db
                      /\ undo' = IF /\ resp.op = "restore" /\ resp.status = "ok"
                                    /\ snap_id = Len(change_log) - 1
                                 THEN [armed |-> TRUE, db |-> before]
                                 ELSE NoUndo
                      /\ UNCHANGED <<fault, inflight>>

SnapIdInputs == 1..(MaxLog + 1)
FailAtInputs == {0, 1, 4}
BlockOrderInputs ==
    { [blocks |-> <<[id |-> 1, position |-> 2], [id |-> 2, position |-> 1], [id |-> 3]>>],
      [order |-> <<>>] }
BlockPutInputs ==
    { [name |-> NameB], [collapsed |-> TRUE], [position |-> 2], [name |-> <<39>>],
      [k \in {} |-> JNull] }

NextSnap ==
    \/ \E n \in BlockNameInputs : add_block_route(n)
    \/ \E b \in BlockIdInputs : ToggleCollapse_post(b)
    \/ \E d \in BlockOrderInputs : BlockOrder_post(d)
    \/ \E b \in BlockIdInputs, d \in BlockPutInputs : Block_put(b, d)
    \/ \E i \in SnapIdInputs, f \in FailAtInputs : restore_snapshot(i, f)

SpecSnap == Init /\ [][NextSnap]_vars

\* C6: whenever no request is in progress the newest change-log entry holds
\* the export of the rows stored now, because every request that changed a
\* stored field of a block, container or subnet (a block's position and
\* collapsed flag included) appended such an entry
LatestSnapshotCurrent ==
    (db # EmptyDb \/ change_log # <<>>) =>
        /\ change_log # <<>>
        /\ change_log[Len(change_log)].content = json_dumps(export_all_data(db))

\* C8: when a successful restore is followed by a successful restore of the
\* entry just before the RESTORE entry, the stored rows are again the rows
\* that were stored just before the first of the two restores
RestoreUndone ==
    (resp.op = "restore" /\ resp.status = "ok" /\ undo.armed) => db = undo.db

\* ------------------------------------------------------- import and restore
\* DatabaseService.import_data(data) called with the document ImportInputs[i]
import_data_call(i, failAt) ==
    \E r \in {import_data(db, ImportInputs[i], FailStep(ImportInputs[i], failAt))} :
        IF r.ok
        THEN /\ db' = r.db
             /\ resp' = [Response("import_data", "ok") EXCEPT !.target = i]
             /\ before' = db
             /\ undo' = NoUndo
             /\ UNCHANGED <<change_log, fault, inflight>>
        ELSE RolledBack("import_data", "import_failed", i, r.db)

ImportForm == [name |-> <<110>>, vlan_id |-> VlanText(100), cidr |-> Cidr(Net10, 24)]
ImportContainerForm == [name |-> ContainerName, base_network |-> Cidr(Net10, 16)]

NextImport ==
    \/ \E n \in BlockNameInputs : add_block_route(n)
    \/ \E b \in BlockIdInputs : add_subnet(b, ImportForm.name, ImportForm.vlan_id, ImportForm.cidr)
    \/ \E b \in BlockIdInputs :
          add_container_route(b, ImportContainerForm.name, ImportContainerForm.base_network)
    \/ \E i \in 1..Len(ImportInputs), f \in FailAtInputs : import_data_call(i, f)

SpecImport == Init /\ [][NextImport]_vars

\* C3: a call of import_data that fails, whether the storage raised at a
\* delete, an insert or the commit or the document itself made it raise,
\* leaves the stored blocks, containers and subnets exactly as they were
\* before the call; a call that succeeds has replaced them all, the stored
\* ids being the ids of the document
ImportAtomic ==
    resp.op = "import_data" =>
        LET d == ImportInputs[resp.target]
            Ids(key) == {Get(d, key, <<>>)[i].id : i \in 1..Len(Get(d, key, <<>>))}
        IN  IF resp.status = "ok"
            THEN /\ {b.id : b \in db.blocks} = Ids("blocks")
                 /\ {c.id : c \in db.containers} = Ids("containers")
                 /\ {s.id : s \in db.subnets} = Ids("subnets")
            ELSE db = before

\* import_data has failed at the subnet row without "cidr", after the deletes
\* and the insert of the block row, while subnets were stored
ImportAtomic_witness ==
    /\ resp.op = "import_data" /\ resp.status = "import_failed"
    /\ resp.target = 4
    /\ db.subnets # {}

\* C4: after a successful import_data(d) every record listed in d is stored
\* with the id and the field values d gives, and every stored block,
\* container and subnet is a record of d
ImportStoresData ==
    (resp.op = "import_data" /\ resp.status = "ok") =>
        LET d == ImportInputs[resp.target]
            bs == Get(d, "blocks", <<>>)
            cs == Get(d, "containers", <<>>)
            ss == Get(d, "subnets", <<>>)
        IN  /\ \A i \in 1..Len(bs) : \E b \in db.blocks :
                  /\ b.id = bs[i].id /\ b.name = bs[i].name
                  /\ "position" \in DOMAIN bs[i] => b.position = bs[i].position
                  /\ "collapsed" \in DOMAIN bs[i] => b.collapsed = bs[i].collapsed
            /\ \A i \in 1..Len(cs) : \E c \in db.containers :
                  /\ c.id = cs[i].id /\ c.block_id = cs[i].block_id /\ c.name = cs[i].name
                  /\ c.base_network = cs[i].base_network
                  /\ "position" \in DOMAIN cs[i] => c.position = cs[i].position
            /\ \A i \in 1..Len(ss) : \E s \in db.subnets :
                  /\ s.id = ss[i].id /\ s.block_id = ss[i].block_id /\ s.name = ss[i].name
                  /\ s.cidr = ss[i].cidr
                  /\ s.vlan_id = (IF "vlan_id" \in DOMAIN ss[i] THEN ss[i].vlan_id ELSE Null)
            /\ Cardinality(db.blocks) = Len(bs)
            /\ Cardinality(db.containers) = Len(cs)
            /\ Cardinality(db.subnets) = Len(ss)

\* the complete document has been imported over stored rows that it does not
\* list
ImportStoresData_witness ==
    /\ resp.op = "import_data" /\ resp.status = "ok"
    /\ resp.target = 3
    /\ \E b \in before.blocks : b.id = 5
    /\ \E s \in before.subnets : s.id = 3

\* the requests that build, collapse and restore
NextRestore ==
    \/ \E n \in BlockNameInputs : add_block_route(n)
    \/ \E b \in BlockIdInputs : add_subnet(b, ImportForm.name, ImportForm.vlan_id, ImportForm.cidr)
    \/ \E b \in BlockIdInputs :
          add_container_route(b, ImportContainerForm.name, ImportContainerForm.base_network)
    \/ \E b \in BlockIdInputs : ToggleCollapse_post(b)
    \/ \E i \in SnapIdInputs, f \in FailAtInputs : restore_snapshot(i, f)

SpecRestore == Init /\ [][NextRestore]_vars

\* C5: in every reachable state, import_data of the export of that state
\* succeeds and leaves the blocks, containers and subnets as they are
ExportImportUnchanged ==
    import_data(db, export_all_data(db), 0) = [ok |-> TRUE, db |-> db]

\* a restore has just imported the export of the rows stored before it: a
\* collapsed block, a container and a subnet with a VLAN
ExportImportUnchanged_witness ==
    /\ resp.op = "restore" /\ resp.status = "ok"
    /\ json_loads(change_log[resp.target].content) = export_all_data(before)
    /\ \E b \in before.blocks : b.collapsed
    /\ before.containers # {}
    /\ \E s \in before.subnets : s.vlan_id # Null

\* C7: a successful restore appends exactly one change-log entry, with the
\* action RESTORE, written after the import, whose content is the export of
\* the rows stored after the restore; these are the rows of the restored
\* snapshot
RestoreLogged ==
    [][ (resp'.op = "restore" /\ resp'.status = "ok") =>
          /\ Len(change_log') = Len(change_log) + 1
          /\ SubSeq(change_log', 1, Len(change_log)) = change_log
          /\ change_log'[Len(change_log')].action = "RESTORE"
          /\ change_log'[Len(change_log')].content = json_dumps(export_all_data(db'))
          /\ export_all_data(db') = json_loads(change_log[resp'.target].content) ]_vars

\* a restore has succeeded and has changed the stored rows
RestoreLogged_witness ==
    /\ resp.op = "restore" /\ resp.status = "ok"
    /\ db # before
    /\ db.subnets # {}

\* the requests that create and update subnets and containers, together
NextScope ==
    \/ \E n \in BlockNameInputs : add_block_route(n)
    \/ \E b \in BlockIdInputs, f \in SubnetFormInputs :
          add_subnet(b, f.name, f.vlan_id, f.cidr)
    \/ \E i \in SubnetIdInputs, f \in SubnetFormInputs :
          edit_subnet(i, f.name, f.vlan_id, f.cidr)
    \/ \E d \in NetworkPostInputs : NetworkList_post(d)
    \/ \E i \in SubnetIdInputs, d \in NetworkPutInputs : Network_put(i, d)
    \/ \E b \in BlockIdInputs, f \in ContainerFormInputs :
          add_container_route(b, f.name, f.base_network)
    \/ \E d \in ContainerPostInputs : ContainerList_post(d)
    \/ \E i \in ContainerIdInputs, d \in ContainerPutInputs : Container_put(i, d)

SpecScope == Init /\ [][NextScope]_vars

\* C10: a subnet or container request that is rejected for a CIDR overlap, a
\* duplicate VLAN or a base-network overlap is rejected because of a record
\* of the block the request is about, never because of a record of another
\* block; and the CIDR and VLAN of a subnet, or the base network of a
\* container, are accepted when they are added to another block that holds
\* no subnet, or no container, of its own
ConflictInSameBlock ==
    /\ (resp.status = "conflict" /\ resp.field \in {"cidr", "vlan_id", "base_network"}) =>
          \E row \in (IF resp.field = "base_network" THEN db.containers ELSE db.subnets) :
              row.id = resp.conflict.id /\ row.block_id = resp.block_id
    /\ \A s \in db.subnets, b \in db.blocks :
          ( /\ Len(change_log) < MaxLog /\ Cardinality(db.subnets) < MaxSubnets
            /\ \A t \in db.subnets : t.block_id # b.id )
          => ENABLED ( /\ add_subnet(b.id, s.name,
                                     IF s.vlan_id = Null THEN EmptyText ELSE VlanText(s.vlan_id),
                                     s.cidr)
                      /\ resp'.status = "ok" )
    /\ \A c \in db.containers, b \in db.blocks :
          ( /\ Len(change_log) < MaxLog /\ Cardinality(db.containers) < MaxContainers
            /\ \A e \in db.containers : e.block_id # b.id )
          => ENABLED ( /\ add_container_route(b.id, c.name, c.base_network)
                      /\ resp'.status = "ok" )

\* the CIDR and the VLAN of a subnet of one block have just been accepted for
\* a new subnet of another block
ConflictInSameBlock_witness ==
    /\ resp.op \in {"add_subnet", "create_network"}
    /\ resp.status = "ok"
    /\ \E s, t \in db.subnets :
          /\ s.block_id # t.block_id
          /\ s.cidr = t.cidr /\ s.vlan_id = t.vlan_id /\ s.vlan_id # Null
          /\ t \notin before.subnets

\* ----------------------------------------------------------- block delete
\* a delete that removes the block and its containers and leaves the
\* subnets of the block stored
delete_block_without_subnets(d, block_id) ==
    [blocks |-> {b \in d.blocks : b.id # block_id},
     containers |-> {c \in d.containers : c.block_id # block_id},
     subnets |-> d.subnets]

\* DatabaseService.delete_block: db.session.delete(block) with the cascade
\* "all, delete-orphan" of NetworkBlock.containers and NetworkBlock.subnets
\* deletes the rows whose block_id is the id of the block
delete_block(d, block_id) ==
    [blocks |-> {b \in d.blocks : b.id # block_id},
     containers |-> {c \in d.containers : c.block_id # block_id},
     subnets |-> {s \in d.subnets : s.block_id # block_id}]

\* a delete request that reached its commit and then logged the snapshot
Deleted(op, block_id, block_name) ==
    IF fault = "write" THEN WriteFailed(op)
    ELSE /\ \E d \in {delete_block(db, block_id)} :
               db' = d /\ LogSnapshot("DELETE_BLOCK", block_name, d)
         /\ resp' = [Response(op, "ok") EXCEPT !.block_id = block_id]
         /\ before' = db
         /\ undo' = NoUndo
         /\ UNCHANGED <<fault, inflight>>

\* POST /delete_block/<block_id>
delete_block_route(block_id) ==
    /\ Len(change_log) < MaxLog
    /\ IF get_block_by_id(db, block_id) = {}
       THEN Rejected(Response("delete_block", "not_found"))
       ELSE Deleted("delete_block", block_id, BlockName(db, block_id))

\* DELETE /api/blocks/<block_id>
Block_delete(block_id) ==
    /\ Len(change_log) < MaxLog
    /\ IF get_block_by_id(db, block_id) = {}
       THEN Rejected(Response("api_delete_block", "not_found"))
       ELSE Deleted("api_delete_block", block_id, BlockName(db, block_id))

\* the storage starts or stops failing
SetFault(f) ==
    /\ fault # f
    /\ fault' = f
    /\ UNCHANGED <<db, change_log, resp, before, undo, inflight>>

FaultInputs == {"none", "write"}

DeleteSubnetForms ==
    {[name |-> <<110>>, vlan_id |-> EmptyText, cidr |-> c] :
        c \in {Cidr(Net10, 24), Cidr(Net10 + 256, 24)}}
CompleteImport == 3

NextDelete ==
    \/ \E n \in BlockNameInputs : add_block_route(n)
    \/ \E b \in BlockIdInputs, f \in DeleteSubnetForms : add_subnet(b, f.name, f.vlan_id, f.cidr)
    \/ \E b \in BlockIdInputs :
          add_container_route(b, ImportContainerForm.name, ImportContainerForm.base_network)
    \/ import_data_call(CompleteImport, 0)
    \/ \E b \in BlockIdInputs : delete_block_route(b)
    \/ \E b \in BlockIdInputs : Block_delete(b)
    \/ \E f \in FaultInputs : SetFault(f)

SpecDelete == Init /\ [][NextDelete]_vars

\* C11: a request that ends as a successful delete of block b, by the web
\* form or by the API, removes exactly the row of block b, every container and every subnet whose
\* block is b, and leaves every other block, container and subnet as it was
BlockDeleteCascades ==
    [][(fault' = fault /\ resp'.op \in {"delete_block", "api_delete_block"}
            /\ resp'.status = "ok") =>
        /\ \E blk \in db.blocks : blk.id = resp'.block_id /\ db'.blocks = db.blocks \ {blk}
        /\ db'.containers = {c \in db.containers : c.block_id # resp'.block_id}
        /\ db'.subnets = {s \in db.subnets : s.block_id # resp'.block_id}]_vars

\* block b was deleted with a subnet of its own while another block holding
\* a subnet and a container stayed
BlockDeleteCascades_witness ==
    /\ resp.op \in {"delete_block", "api_delete_block"}
    /\ resp.status = "ok"
    /\ \E s \in before.subnets : s.block_id = resp.block_id
    /\ \E s \in db.subnets, c \in db.containers, b \in db.blocks :
          s.block_id = b.id /\ c.block_id = b.id

\* ------------------------------------------------------- rejected requests
\* DatabaseService.update_block_name: [ok, db]
update_block_name(d, block_id, new_name) ==
    IF get_block_by_id(d, block_id) = {} THEN [ok |-> FALSE, db |-> d]
    ELSE IF \E b \in d.blocks : b.name = new_name /\ b.id # block_id
    THEN [ok |-> FALSE, db |-> d]
    ELSE [ok |-> TRUE,
          db |-> [d EXCEPT !.blocks = {IF b.id = block_id THEN [b EXCEPT !.name = new_name]
                                       ELSE b : b \in @}]]

\* POST /rename_block/<block_id>
rename_block(block_id, new_name_raw) ==
    /\ Len(change_log) < MaxLog
    /\ \E new_name \in {sanitize_input(new_name_raw)} :
       IF ~validate_block_name(new_name)
       THEN Rejected(Response("rename_block", "validation"))
       ELSE IF check_duplicate_block_name(db, new_name, block_id)
       THEN Rejected(Response("rename_block", "conflict"))
       ELSE \E r \in {update_block_name(db, block_id, new_name)} :
            IF ~r.ok
            THEN Rejected(Response("rename_block", "not_found"))
            ELSE Committed("rename_block", "RENAME_BLOCK", BlockName(db, block_id), r.db)

NewName == <<109>>
RejectSubnetForms ==
    { [name |-> <<110>>, vlan_id |-> EmptyText, cidr |-> Cidr(Net10, 24)],
      [name |-> <<110>>, vlan_id |-> VlanText(100), cidr |-> Cidr(Net10 + 256, 24)],
      [name |-> <<110>>, vlan_id |-> VlanText(100), cidr |-> Cidr(Net10 + 128, 25)],
      [name |-> <<110>>, vlan_id |-> VlanText(4095), cidr |-> Cidr(Net10, 24)],
      [name |-> <<39>>, vlan_id |-> EmptyText, cidr |-> Cidr(Net10, 24)] }
\* bodies of Network.put that all carry a valid new name
RejectPutInputs ==
    {[name |-> NewName, cidr |-> c] : c \in {Cidr(Net10, 24), Cidr(Net10 + 256, 24), NoMaskCidr}}
    \cup {[name |-> NewName, vlan_id |-> v] : v \in {JInt(100), JInt(0)}}

RejectBlockPutInputs == {[name |-> NameB], [name |-> <<39>>]}
RejectNetworkPostInputs ==
    { [block_id |-> 1, name |-> ApiName, cidr |-> Cidr(Net10, 24)],
      [block_id |-> 1, name |-> ApiName, cidr |-> Cidr(Net10, 24), vlan_id |-> JInt(4095)],
      [block_id |-> 3, name |-> ApiName, cidr |-> Cidr(Net10, 24)],
      [block_id |-> 1, name |-> ApiName] }
RejectContainerPostInputs ==
    { [block_id |-> 1, name |-> ContainerName, base_network |-> Cidr(Net10, 16)],
      [block_id |-> 1, name |-> ContainerName, base_network |-> NoMaskCidr],
      [block_id |-> 1, name |-> ContainerName] }

NextReject ==
    \/ \E n \in BlockNameInputs : add_block_route(n)
    \/ \E b \in BlockIdInputs, n \in BlockNameInputs : rename_block(b, n)
    \/ \E b \in BlockIdInputs, data \in RejectBlockPutInputs : Block_put(b, data)
    \/ \E b \in BlockIdInputs, f \in RejectSubnetForms : add_subnet(b, f.name, f.vlan_id, f.cidr)
    \/ \E s \in SubnetIdInputs, f \in RejectSubnetForms :
          edit_subnet(s, f.name, f.vlan_id, f.cidr)
    \/ \E s \in SubnetIdInputs, data \in RejectPutInputs : Network_put(s, data)
    \/ \E b \in BlockIdInputs, f \in ContainerFormInputs :
          add_container_route(b, f.name, f.base_network)
    \/ \E c \in ContainerIdInputs, data \in ContainerPutInputs : Container_put(c, data)
    \/ \E data \in RejectNetworkPostInputs : NetworkList_post(data)
    \/ \E data \in RejectContainerPostInputs : ContainerList_post(data)
    \/ \E f \in FaultInputs : SetFault(f)

SpecReject == Init /\ [][NextReject]_vars

CreateUpdateOps ==
    {"add_block", "rename_block", "update_block", "add_subnet", "edit_subnet",
     "create_network", "update_network", "add_container", "create_container",
     "update_container"}

\* C12: a create or update request that does not end with success (rejected
\* by validation, by a conflict check, for a missing row, or because its
\* commit raised) leaves every stored row as it was and appends no change-log
\* row; so the name of a subnet stays when the same request's CIDR or VLAN is
\* rejected
RejectedChangesNothing ==
    [][(fault' = fault /\ resp'.op \in CreateUpdateOps /\ resp'.status # "ok") =>
        (db' = db /\ change_log' = change_log)]_vars

\* a Network.put carrying a valid new name was refused for the conflict of
\* its CIDR or VLAN, and the subnet still has its old name
RejectedChangesNothing_witness ==
    /\ resp.op = "update_network"
    /\ resp.status = "conflict"
    /\ resp.field \in {"cidr", "vlan_id"}
    /\ db.subnets # {}
    /\ \A s \in db.subnets : s.name # NewName

\* ---------------------------------------------------- requests in parallel
\* The server handles requests in parallel, each with a session of its own:
\* a handler's queries read the committed rows, and between two statements
\* of one handler the statements of another may run.
Pending == Cardinality({p \in Requests : inflight[p] # Idle})

\* a handler passed its checks and holds the validated values until its write
Hold(p, held) ==
    /\ inflight' = [inflight EXCEPT ![p] = held]
    /\ UNCHANGED <<db, change_log, resp, before, undo, fault>>

\* the held write of request p is committed and logged
HeldCommitted(p, op, action, block, newdb) ==
    /\ \E d \in {newdb} : db' = d /\ LogSnapshot(action, block, d)
    /\ resp' = Response(op, "ok")
    /\ before' = db
    /\ undo' = NoUndo
    /\ inflight' = [inflight EXCEPT ![p] = Idle]
    /\ UNCHANGED fault

\* POST /add_subnet up to the end of _check_subnet_conflicts
add_subnet_check(p, block_id, name_raw, vlan_id_raw, cidr_raw) ==
    /\ inflight[p] = Idle
    /\ Len(change_log) + Pending < MaxLog
    /\ Cardinality(db.subnets) + Pending < MaxSubnets
    /\ IF get_block_by_id(db, block_id) = {}
       THEN Rejected(Response("add_subnet", "not_found"))
       ELSE \E v \in {validate_subnet_basic_input(name_raw, cidr_raw, vlan_id_raw)} :
            IF ~v.ok
            THEN Rejected(Response("add_subnet", "validation"))
            ELSE \E c \in {check_subnet_conflicts(db, v.cidr, v.vlan_id, block_id, Null)} :
                 IF c.found
                 THEN Rejected(ConflictResponse("add_subnet", block_id, c.field, c.rec))
                 ELSE Hold(p, [pc |-> "checked", op |-> "add_subnet", block_id |-> block_id,
                               name |-> v.name, vlan_id |-> v.vlan_id, cidr |-> v.cidr])

\* POST /api/networks up to the end of its conflict checks
NetworkList_post_check(p, data) ==
    /\ inflight[p] = Idle
    /\ Len(change_log) + Pending < MaxLog
    /\ Cardinality(db.subnets) + Pending < MaxSubnets
    /\ IF ~({"block_id", "name", "cidr"} \subseteq DOMAIN data)
       THEN Rejected(Response("create_network", "validation"))
       ELSE IF get_block_by_id(db, data.block_id) = {}
       THEN Rejected(Response("create_network", "not_found"))
       ELSE \E v \in {NetworkList_post_fields(data)} :
            IF ~v.ok
            THEN Rejected(Response("create_network", "validation"))
            ELSE \E c \in {check_subnet_conflicts(db, v.cidr, v.vlan_id, data.block_id, Null)} :
                 IF c.found
                 THEN Rejected(ConflictResponse("create_network", data.block_id,
                                                c.field, c.rec))
                 ELSE Hold(p, [pc |-> "checked", op |-> "create_network",
                               block_id |-> data.block_id, name |-> v.name,
                               vlan_id |-> v.vlan_id, cidr |-> v.cidr])

\* the rest of either handler: DatabaseService.create_subnet and the log
create_subnet_write(p) ==
    /\ inflight[p].pc = "checked"
    /\ inflight[p].op \in {"add_subnet", "create_network"}
    /\ \E r \in {inflight[p]} :
          HeldCommitted(p, r.op, "ADD_SUBNET", BlockName(db, r.block_id),
                        create_subnet(db, r.block_id, r.name, r.vlan_id, r.cidr))

\* requests whose CIDRs have no host bits
RaceSubnetForms ==
    { [name |-> <<110>>, vlan_id |-> EmptyText, cidr |-> Cidr(Net10, 24)],
      [name |-> <<110>>, vlan_id |-> VlanText(100), cidr |-> Cidr(Net10 + 128, 25)],
      [name |-> <<110>>, vlan_id |-> VlanText(100), cidr |-> Cidr(Net10 + 256, 24)] }
RaceNetworkPostInputs ==
    { [block_id |-> 1, name |-> ApiName, cidr |-> Cidr(Net10, 24)],
      [block_id |-> 1, name |-> ApiName, cidr |-> Cidr(Net10 + 256, 24), vlan_id |-> JInt(100)] }

NextRace ==
    \/ \E n \in BlockNameInputs : add_block_route(n)
    \/ \E p \in Requests, b \in BlockIdInputs, f \in RaceSubnetForms :
          add_subnet_check(p, b, f.name, f.vlan_id, f.cidr)
    \/ \E p \in Requests, data \in RaceNetworkPostInputs : NetworkList_post_check(p, data)
    \/ \E p \in Requests : create_subnet_write(p)

SpecRace == Init /\ [][NextRace]_vars

\* C13: when create-subnet requests for one block are served in parallel,
\* the subnets committed to a block never overlap and never share a VLAN
ParallelCreatesExclusive ==
    \A s, t \in db.subnets :
        (s.id # t.id /\ s.block_id = t.block_id) =>
            /\ ~overlaps(s.cidr, t.cidr)
            /\ (s.vlan_id = Null \/ s.vlan_id # t.vlan_id)

\* ------------------------------------------ block names under parallelism
\* a network_blocks table without the unique index on name
unique_name_not_enforced(d, name, block_id) == FALSE

\* name = Column(String(255), nullable=False, unique=True): the flush of a
\* row for block_id with this name raises IntegrityError when another row
\* has the name
UniqueNameViolated(d, name, block_id) ==
    \E b \in d.blocks : b.name = name /\ b.id # block_id

\* the write of request p failed and was rolled back
HeldFailed(p, op, status) ==
    /\ resp' = Response(op, status)
    /\ before' = db
    /\ undo' = NoUndo
    /\ inflight' = [inflight EXCEPT ![p] = Idle]
    /\ UNCHANGED <<db, change_log, fault>>

\* POST /add_block up to the end of check_duplicate_block_name
add_block_check(p, name_raw) ==
    /\ inflight[p] = Idle
    /\ Len(change_log) + Pending < MaxLog
    /\ Cardinality(db.blocks) + Pending < MaxBlocks
    /\ \E name \in {sanitize_input(name_raw)} :
       IF ~validate_block_name(name)
       THEN Rejected(Response("add_block", "validation"))
       ELSE IF check_duplicate_block_name(db, name, Null)
       THEN Rejected(Response("add_block", "conflict"))
       ELSE Hold(p, [pc |-> "checked", op |-> "add_block", name |-> name])

\* the rest of add_block_route: DatabaseService.create_block and the log
create_block_write(p) ==
    /\ inflight[p].pc = "checked"
    /\ inflight[p].op = "add_block"
    /\ \E r \in {inflight[p]} :
          IF UniqueNameViolated(db, r.name, NextId(db.blocks))
          THEN HeldFailed(p, "add_block", "error")
          ELSE HeldCommitted(p, "add_block", "ADD_BLOCK", r.name, create_block(db, r.name))

\* POST /rename_block/<block_id> up to the end of check_duplicate_block_name
rename_block_check(p, block_id, new_name_raw) ==
    /\ inflight[p] = Idle
    /\ Len(change_log) + Pending < MaxLog
    /\ \E new_name \in {sanitize_input(new_name_raw)} :
       IF ~validate_block_name(new_name)
       THEN Rejected(Response("rename_block", "validation"))
       ELSE IF check_duplicate_block_name(db, new_name, block_id)
       THEN Rejected(Response("rename_block", "conflict"))
       ELSE Hold(p, [pc |-> "checked", op |-> "rename_block", block_id |-> block_id,
                     name |-> new_name])

\* DatabaseService.update_block_name up to its own query for the name
update_block_name_query(p) ==
    /\ inflight[p].pc = "checked"
    /\ inflight[p].op = "rename_block"
    /\ \E r \in {inflight[p]} :
          IF ~update_block_name(db, r.block_id, r.name).ok
          THEN HeldFailed(p, "rename_block", "not_found")
          ELSE Hold(p, [r EXCEPT !.pc = "queried"])

\* the assignment and the commit of update_block_name, and the log
update_block_name_write(p) ==
    /\ inflight[p].pc = "queried"
    /\ \E r \in {inflight[p]} :
          IF UniqueNameViolated(db, r.name, r.block_id)
          THEN HeldFailed(p, "rename_block", "error")
          ELSE HeldCommitted(p, "rename_block", "RENAME_BLOCK", BlockName(db, r.block_id),
                             [db EXCEPT !.blocks = {IF b.id = r.block_id
                                                    THEN [b EXCEPT !.name = r.name]
                                                    ELSE b : b \in @}])

NextNames ==
    \/ \E p \in Requests, n \in BlockNameInputs : add_block_check(p, n)
    \/ \E p \in Requests : create_block_write(p)
    \/ \E p \in Requests, b \in BlockIdInputs, n \in BlockNameInputs : rename_block_check(p, b, n)
    \/ \E p \in Requests : update_block_name_query(p)
    \/ \E p \in Requests : update_block_name_write(p)

SpecNames == Init /\ [][NextNames]_vars

\* C14: whatever the interleaving of block create and rename requests, no
\* two stored blocks have the same name
BlockNamesUnique ==
    \A a, b \in db.blocks : a.id # b.id => a.name # b.name

\* a create or rename passed the duplicate-name check, and its write was
\* then refused by the storage and rolled back
BlockNamesUnique_witness ==
    /\ resp.op \in {"add_block", "rename_block"}
    /\ resp.status = "error"
    /\ db = before
    /\ db.blocks # {}

\* ------------------------------------------------- import_data in parallel
\* a storage whose queries read the rows of another session's open
\* transaction
read_uncommitted(d, held) ==
    IF held.pc = "import" THEN ImportWork(held.start, ImportInputs[held.i], held.k) ELSE d

\* What a query of one session reads while another session holds `held`: the
\* deletes and the rows added by import_data stay in its transaction until
\* the db.session.commit() at its end, and SQLite shows other connections
\* the committed rows only
CommittedRows(d, held) == d

\* the step at which the import of data ends: its commit, or the first
\* statement that raises
ImportEnd(data) ==
    IF DataFailSteps(data) = {} THEN ImportSteps(data)
    ELSE CHOOSE f \in DataFailSteps(data) : \A g \in DataFailSteps(data) : f <= g

\* no session holds the write lock of the database file
NoImportOpen == \A p \in Requests : inflight[p].pc # "import"

\* import_data(data) enters its try block
import_data_begin(p, i) ==
    /\ inflight[p] = Idle
    /\ NoImportOpen
    /\ Hold(p, [pc |-> "import", i |-> i, k |-> 0, start |-> db])

\* one more statement of import_data: a query.delete() or a session.add()
import_data_step(p) ==
    /\ inflight[p].pc = "import"
    /\ inflight[p].k + 1 < ImportEnd(ImportInputs[inflight[p].i])
    /\ Hold(p, [inflight[p] EXCEPT !.k = @ + 1])

\* the end of import_data: db.session.commit(), or the except branch
import_data_end(p) ==
    /\ inflight[p].pc = "import"
    /\ inflight[p].k + 1 = ImportEnd(ImportInputs[inflight[p].i])
    /\ \E r \in {import_data(db, ImportInputs[inflight[p].i], 0)} :
          /\ db' = r.db
          /\ resp' = [Response("import_data", IF r.ok THEN "ok" ELSE "import_failed")
                        EXCEPT !.target = inflight[p].i]
          /\ before' = db
          /\ undo' = NoUndo
          /\ inflight' = [inflight EXCEPT ![p] = Idle]
          /\ UNCHANGED <<change_log, fault>>

\* get_all_blocks, get_all_containers or get_all_subnets run by request q
\* while request p is where it is
get_all(q, p, table) ==
    /\ inflight[q] = Idle
    /\ p # q
    /\ resp' = [op |-> "get_all", status |-> "ok", block_id |-> 0, field |-> table,
                conflict |-> NoRec, target |-> 0,
                seen |-> CommittedRows(db, inflight[p])[table], open |-> inflight[p]]
    /\ before' = db
    /\ undo' = NoUndo
    /\ UNCHANGED <<db, change_log, fault, inflight>>

Tables == {"blocks", "containers", "subnets"}

\* the documents imported in parallel with queries: the complete one, and
\* the one whose subnet lacks "cidr"
IsolationImports == {CompleteImport, CompleteImport + 1}

NextIsolation ==
    \/ \E n \in BlockNameInputs : NoImportOpen /\ add_block_route(n)
    \/ \E b \in BlockIdInputs :
          NoImportOpen /\ add_subnet(b, ImportForm.name, ImportForm.vlan_id, ImportForm.cidr)
    \/ \E p \in Requests, i \in IsolationImports : import_data_begin(p, i)
    \/ \E p \in Requests : import_data_step(p)
    \/ \E p \in Requests : import_data_end(p)
    \/ \E q, p \in Requests, t \in Tables : get_all(q, p, t)

SpecIsolation == Init /\ [][NextIsolation]_vars

delete_subnet(d, subnet_id) == [d EXCEPT !.subnets = {s \in @ : s.id # subnet_id}]
delete_container(d, container_id) ==
    [d EXCEPT !.containers = {c \in @ : c.id # container_id}]

\* a data row of the file passes the validation of import_csv
CsvRowValid(row) ==
    /\ validate_block_name(sanitize_input(Strip(row.block)))
    /\ validate_subnet_basic_input(Strip(row.name), row.cidr, row.vlan).ok

\* the entry of processed_rows for a valid data row
CsvProcessedRow(row) ==
    [block_name |-> sanitize_input(Strip(row.block)),
     subnet_name |-> sanitize_input(Strip(row.name)),
     vlan_id |-> validate_vlan_id(row.vlan).vlan,
     cidr |-> row.cidr]

\* The import runs on st = [db, log, calls, created]: the stored rows, the
\* change log, the number of writes of the DatabaseService made so far and
\* blocks_created.  One write of the DatabaseService: it commits newdb, or,
\* when it is the write number failAt, the storage raises, the service rolls
\* back and returns its failure
CsvCall(st, failAt, newdb) ==
    [st EXCEPT !.calls = @ + 1, !.db = IF st.calls + 1 = failAt THEN @ ELSE newdb]

CsvCallFails(st, failAt) == st.calls + 1 = failAt

\* the export_all_data and add_change_log lines of import_csv; when the
\* commit of add_change_log raises (fault = "log") the row is rolled back and
\* the False that add_change_log returns is not read
CsvLog(st, action, block) ==
    IF fault \in {"log", "export"} THEN st
    ELSE [st EXCEPT !.log = add_change_log(@, action, block, json_dumps(export_all_data(st.db)))]

\* the three delete loops of the replace mode over the rows listed before
\* each loop
RECURSIVE CsvDeleteEach(_, _, _, _, _)
CsvDeleteEach(st, rows, i, table, failAt) ==
    IF i > Len(rows) THEN st
    ELSE LET d == st.db
             id == rows[i].id
             gone == CASE table = "subnets" -> get_subnet_by_id(d, id) = {}
                       [] table = "containers" -> get_container_by_id(d, id) = {}
                       [] OTHER -> get_block_by_id(d, id) = {}
             newdb == CASE table = "subnets" -> delete_subnet(d, id)
                        [] table = "containers" -> delete_container(d, id)
                        [] OTHER -> delete_block(d, id)
         IN  CsvDeleteEach(IF gone THEN st ELSE CsvCall(st, failAt, newdb),
                           rows, i + 1, table, failAt)

CsvReplace(st, failAt) ==
    LET s0 == CsvLog(st, "PRE_REPLACE_SNAPSHOT", <<65, 108, 108>>)
        s1 == CsvDeleteEach(s0, get_all_subnets(s0.db), 1, "subnets", failAt)
        s2 == CsvDeleteEach(s1, get_all_containers(s1.db), 1, "containers", failAt)
    IN  CsvDeleteEach(s2, get_all_blocks(s2.db), 1, "blocks", failAt)

\* the subnet part of one processed row, for the block found or created
CsvSubnet(st, block_id, row, import_mode, failAt) ==
    LET hit == FirstMatch(get_all_subnets(st.db),
                          {s \in st.db.subnets :
                              /\ s.block_id = block_id
                              /\ \/ s.name = row.subnet_name
                                 \/ CidrText(s.cidr) = CidrText(row.cidr)})
    IN  IF ~hit.found
        THEN CsvCall(st, failAt,
                     create_subnet(st.db, block_id, row.subnet_name, row.vlan_id, row.cidr))
        ELSE IF import_mode = "override"
        THEN CsvCall(st, failAt,
                     update_subnet(st.db, hit.rec.id, row.subnet_name, row.vlan_id, row.cidr))
        ELSE st

\* one processed row: get or create the block, then the subnet
CsvRow(st, row, import_mode, failAt) ==
    LET found == get_block_by_name(st.db, row.block_name)
        made == CsvCall(st, failAt, create_block(st.db, row.block_name))
    IN  IF found # {}
        THEN CsvSubnet(st, (CHOOSE b \in found : TRUE).id, row, import_mode, failAt)
        ELSE IF CsvCallFails(st, failAt)
        THEN made
        ELSE CsvSubnet([made EXCEPT !.created = @ \cup {row.block_name}],
                       NextId(st.db.blocks), row, import_mode, failAt)

RECURSIVE CsvProcess(_, _, _, _, _)
CsvProcess(st, rows, i, import_mode, failAt) ==
    IF i > Len(rows) THEN st
    ELSE CsvProcess(CsvRow(st, CsvProcessedRow(rows[i]), import_mode, failAt),
                    rows, i + 1, import_mode, failAt)

\* the block column of the IMPORT_CSV entry
CsvLogBlock(created) ==
    IF Cardinality(created) # 1 THEN <<77, 117, 108, 116, 105, 112, 108, 101>>
    ELSE CHOOSE n \in created : TRUE

\* import_csv for the data rows of a file with the expected header, when the
\* storage raises at the write number failAt (0: it never does)
import_csv_result(d, log, import_mode, rows, failAt) ==
    LET st0 == [db |-> d, log |-> log, calls |-> 0, created |-> {}]
        st1 == IF import_mode = "replace" THEN CsvReplace(st0, failAt) ELSE st0
        st2 == CsvProcess(st1, rows, 1, import_mode, failAt)
    IN  CsvLog(st2, "IMPORT_CSV", CsvLogBlock(st2.created))

\* an import that leaves the invalid rows out and imports the others
import_csv_skipping_invalid(import_mode, rows, failAt) ==
    /\ Len(change_log) + 2 <= MaxLog
    /\ \E st \in {import_csv_result(db, change_log, import_mode,
                                     SelectSeq(rows, LAMBDA r : CsvRowValid(r)), failAt)} :
          /\ Cardinality(st.db.blocks) <= MaxBlocks
          /\ Cardinality(st.db.subnets) <= MaxSubnets
          /\ db' = st.db
          /\ change_log' = st.log
          /\ resp' = [Response("import_csv", "ok") EXCEPT !.field = import_mode]
          /\ before' = db
          /\ undo' = NoUndo
          /\ UNCHANGED <<fault, inflight>>

\* POST /import_csv.  When export_all_data raises (fault = "export") the
\* replace step stops before its deletes ("Import aborted"); in the other
\* modes the rows are written and the exception of the last export leaves the
\* handler through its outer except clause
import_csv(import_mode, rows, failAt) ==
    /\ Len(change_log) + 2 <= MaxLog
    /\ IF \E i \in 1..Len(rows) : ~CsvRowValid(rows[i])
       THEN Rejected([Response("import_csv", "validation") EXCEPT !.field = import_mode])
       ELSE IF fault = "export" /\ import_mode = "replace"
       THEN Rejected([Response("import_csv", "error") EXCEPT !.field = import_mode])
       ELSE \E st \in {import_csv_result(db, change_log, import_mode, rows, failAt)} :
            /\ Cardinality(st.db.blocks) <= MaxBlocks
            /\ Cardinality(st.db.subnets) <= MaxSubnets
            /\ db' = st.db
            /\ change_log' = st.log
            /\ resp' = [Response("import_csv", IF fault = "export" THEN "error" ELSE "ok") EXCEPT
                          !.field = import_mode,
                          !.target = IF failAt \in 1..st.calls THEN failAt ELSE 0]
            /\ before' = db
            /\ undo' = NoUndo
            /\ UNCHANGED <<fault, inflight>>

ImportModes == {"merge", "override", "replace"}

\* data rows: two for block A whose networks overlap and whose VLANs are
\* equal, one for block B without VLAN, one with a quote in the subnet name
CsvRowInputs ==
    { [block |-> NameA, cidr |-> Cidr(Net10, 24), vlan |-> VlanText(100), name |-> <<110>>],
      [block |-> NameA, cidr |-> Cidr(Net10 + 128, 25), vlan |-> VlanText(100),
       name |-> <<109>>],
      [block |-> NameB, cidr |-> Cidr(Net10 + 256, 24), vlan |-> EmptyText, name |-> <<110>>],
      [block |-> NameA, cidr |-> Cidr(Net10, 24), vlan |-> EmptyText, name |-> <<39>>] }

MaxCsvRows == 2
CsvFileInputs ==
    UNION {[1..n -> {r \in CsvRowInputs : n = 1 \/ CsvRowValid(r)}] : n \in 1..MaxCsvRows}
CsvFailInputs == 0..(MaxCsvRows + 1)

NextCsv ==
    \/ \E n \in BlockNameInputs : add_block_route(n)
    \/ \E b \in BlockIdInputs : add_subnet(b, ImportForm.name, ImportForm.vlan_id, ImportForm.cidr)
    \/ \E b \in BlockIdInputs :
          add_container_route(b, ImportContainerForm.name, ImportContainerForm.base_network)
    \/ \E m \in ImportModes, rows \in CsvFileInputs, f \in CsvFailInputs : import_csv(m, rows, f)

SpecCsv == Init /\ [][NextCsv]_vars

\* no block of d holds two subnets with overlapping networks or with the same
\* VLAN
NoSubnetConflict(d) ==
    \A s, t \in d.subnets :
        (s.id # t.id /\ s.block_id = t.block_id) =>
            /\ ~overlaps(s.cidr, t.cidr)
            /\ (s.vlan_id = Null \/ s.vlan_id # t.vlan_id)

\* C16: a CSV import, in any mode, of stored data without conflicts leaves
\* no block with two overlapping subnets or with a VLAN used twice
CsvImportChecksConflicts ==
    [][(resp'.op = "import_csv" /\ resp'.status = "ok" /\ resp'.target = 0
            /\ NoSubnetConflict(db)) => NoSubnetConflict(db')]_vars

\* C17: a replace-mode CSV import in which a delete, a block creation or a
\* subnet insert failed leaves the stored data as it was before the import
CsvReplaceAllOrNothing ==
    [][(resp'.op = "import_csv" /\ resp'.field = "replace" /\ resp'.target # 0)
          => db' = db]_vars

\* ------------------------------------------------------- the change log
\* POST /delete_subnet/<subnet_id>
delete_subnet_route(subnet_id) ==
    /\ Len(change_log) < MaxLog
    /\ IF get_subnet_by_id(db, subnet_id) = {}
       THEN Rejected(Response("delete_subnet", "not_found"))
       ELSE \E subnet \in get_subnet_by_id(db, subnet_id) :
            IF get_block_by_id(db, subnet.block_id) = {}
            THEN Rejected(Response("delete_subnet", "error"))
            ELSE Committed("delete_subnet", "DELETE_SUBNET", BlockName(db, subnet.block_id),
                           delete_subnet(db, subnet_id))

\* POST /delete_container/<container_id>
delete_container_route(container_id) ==
    /\ Len(change_log) < MaxLog
    /\ IF get_container_by_id(db, container_id) = {}
       THEN Rejected(Response("delete_container", "not_found"))
       ELSE \E container \in get_container_by_id(db, container_id) :
            Committed("delete_container", "DELETE_CONTAINER",
                      IF get_block_by_id(db, container.block_id) = {}
                      THEN <<85, 110, 107, 110, 111, 119, 110>>
                      ELSE BlockName(db, container.block_id),
                      delete_container(db, container_id))

\* the CSV file imported next to the other requests: one row for block A
LogCsvInputs ==
    {<<r>> : r \in {r \in CsvRowInputs : r.block = NameA /\ r.name = <<110>>}}

NextLog ==
    \/ add_block_route(NameA)
    \/ rename_block(1, NameB)
    \/ delete_block_route(1)
    \/ add_subnet(1, ImportForm.name, ImportForm.vlan_id, ImportForm.cidr)
    \/ edit_subnet(1, NewName, EmptyText, ImportForm.cidr)
    \/ delete_subnet_route(1)
    \/ add_container_route(1, ImportContainerForm.name, ImportContainerForm.base_network)
    \/ delete_container_route(1)
    \/ \E s \in SnapIdInputs, f \in {0, 2} : restore_snapshot(s, f)
    \/ \E f \in {0, 2} : import_data_call(CompleteImport, f)
    \/ \E m \in ImportModes, rows \in LogCsvInputs, f \in {0, 2} : import_csv(m, rows, f)
    \/ \E f \in FaultInputs : SetFault(f)

SpecLog == Init /\ [][NextLog]_vars

\* C18: no step modifies or removes a change-log entry: the log after a
\* step is the log before it, followed by the entries the step added
ChangeLogAppendOnly ==
    [][/\ Len(change_log') >= Len(change_log)
       /\ SubSeq(change_log', 1, Len(change_log)) = change_log]_vars

\* a replace-mode CSV import deleted the stored data and added its two
\* entries after the entries of an earlier restore
ChangeLogAppendOnly_witness ==
    /\ resp.op = "import_csv"
    /\ resp.field = "replace"
    /\ before.blocks # {}
    /\ Len(change_log) >= 4
    /\ change_log[Len(change_log)].action = "IMPORT_CSV"
    /\ change_log[Len(change_log) - 1].action = "PRE_REPLACE_SNAPSHOT"
    /\ \E i \in 1..(Len(change_log) - 2) : change_log[i].action = "RESTORE"

\* -------------------------------------------------------------- exclude_id
\* one of the three checks of validation.py that take exclude_id, by the
\* field it checks
ConflictCheck(d, field, value, block_id, exclude_id) ==
    CASE field = "vlan_id" -> check_duplicate_vlan_in_block(d, value, block_id, exclude_id)
      [] field = "cidr" -> check_overlapping_cidr_in_block(d, value, block_id, exclude_id)
      [] OTHER -> check_overlapping_container_networks(d, value, block_id, exclude_id)

\* a call of a check with exclude_id for an update of the record exclude_id
check_call(field, value, block_id, exclude_id) ==
    /\ resp' = [op |-> "check", status |-> "ok", block_id |-> block_id, field |-> field,
                conflict |-> NoRec, target |-> 0, value |-> value, exclude_id |-> exclude_id,
                result |-> ConflictCheck(db, field, value, block_id, exclude_id)]
    /\ before' = db
    /\ undo' = NoUndo
    /\ UNCHANGED <<db, change_log, fault, inflight>>

\* the values given to the checks
CheckValues(field) ==
    CASE field = "vlan_id" -> {Null, 100}
      [] field = "cidr" -> {Cidr(Net10, 24), Cidr(Net10 + 128, 25), Cidr(Net10 + 5, 24)}
      [] OTHER -> {Cidr(Net10, 16), Cidr(Net10 + 256, 24)}

CheckFields == {"vlan_id", "cidr", "base_network"}

ExcludeSubnetForms ==
    { [name |-> <<110>>, vlan_id |-> EmptyText, cidr |-> Cidr(Net10, 24)],
      [name |-> <<110>>, vlan_id |-> VlanText(100), cidr |-> Cidr(Net10 + 128, 25)],
      [name |-> <<110>>, vlan_id |-> VlanText(100), cidr |-> Cidr(Net10 + 256, 24)],
      [name |-> <<110>>, vlan_id |-> VlanText(100), cidr |-> Cidr(Net10 + 5, 24)] }

NextExclude ==
    \/ \E n \in {NameA, NameB} : add_block_route(n)
    \/ \E b \in 1..MaxBlocks, f \in ExcludeSubnetForms :
          add_subnet(b, f.name, f.vlan_id, f.cidr)
    \/ \E i \in 1..MaxSubnets, f \in ExcludeSubnetForms :
          edit_subnet(i, f.name, f.vlan_id, f.cidr)
    \/ \E b \in 1..MaxBlocks, c \in CheckValues("base_network") :
          add_container_route(b, ContainerName, c)
    \/ \E field \in CheckFields, b \in 1..MaxBlocks, r \in 1..MaxSubnets :
          \E value \in CheckValues(field) : check_call(field, value, b, r)

SpecExclude == Init /\ [][NextExclude]_vars

\* the stored data without the record r of the table the field belongs to
WithoutRecord(d, field, r) ==
    IF field = "base_network" THEN delete_container(d, r) ELSE delete_subnet(d, r)

\* C19: a check called with exclude_id = r answers as the same check without
\* exclude_id answers on the data without record r: it ignores r, reports no
\* conflict of r with itself, and reports every conflict with another record
ExcludeIgnoresOnlyThatRecord ==
    resp.op = "check" =>
        resp.result = ConflictCheck(WithoutRecord(db, resp.field, resp.exclude_id),
                                    resp.field, resp.value, resp.block_id, Null)

\* the CIDR check for an update of subnet r to a range that overlaps the
\* range r has now: no conflict is reported although the overlap is there
ExcludeIgnoresOnlyThatRecord_witness ==
    /\ resp.op = "check"
    /\ resp.field = "cidr"
    /\ ~resp.result.found
    /\ \E s \in db.subnets :
          /\ s.id = resp.exclude_id
          /\ s.block_id = resp.block_id
          /\ s.cidr # resp.value
          /\ check_overlapping_cidr_in_block(db, resp.value, resp.block_id, Null).found
    /\ \E t \in db.subnets : t.id # resp.exclude_id /\ t.block_id = resp.block_id

\* ---------------------------------------------------------- missing VLAN
\* forms without VLAN for /add_subnet, and forms that give an existing
\* subnet a VLAN
NullVlanForms == {[name |-> <<110>>, vlan_id |-> EmptyText, cidr |-> c] : c \in ValidCidrInputs}
SetVlanForms ==
    {[name |-> <<110>>, vlan_id |-> VlanText(100), cidr |-> c] :
        c \in {Cidr(Net10, 24), Cidr(Net10 + 256, 24)}}

NextNull ==
    \/ \E n \in {NameA, NameB} : add_block_route(n)
    \/ \E b \in BlockIdInputs, f \in NullVlanForms : add_subnet(b, f.name, f.vlan_id, f.cidr)
    \/ \E i \in SubnetIdInputs, f \in SetVlanForms : edit_subnet(i, f.name, f.vlan_id, f.cidr)
    \/ \E b \in BlockIdInputs, r \in {Null} \cup SubnetIdInputs :
          check_call("vlan_id", Null, b, r)

SpecNull == Init /\ [][NextNull]_vars

\* C20: the duplicate-VLAN check called without VLAN finds no duplicate
\* whatever is stored; an /add_subnet without VLAN is never refused for its
\* VLAN, and one whose network overlaps no subnet of its block passes the
\* conflict checks
NullVlanNeverDuplicate ==
    [][/\ (resp'.op = "check" /\ resp'.field = "vlan_id" /\ resp'.value = Null)
            => ~resp'.result.found
       /\ (resp'.op = "add_subnet" /\ resp'.status = "conflict") => resp'.field = "cidr"
       /\ \A b \in db.blocks, c \in ValidCidrInputs :
             (\A s \in db.subnets : s.block_id = b.id => ~overlaps(c, s.cidr))
                 => ~check_subnet_conflicts(db, c, Null, b.id, Null).found]_vars

\* an /add_subnet without VLAN was accepted for a block that held a subnet
\* without VLAN already
NullVlanNeverDuplicate_witness ==
    /\ resp.op = "add_subnet"
    /\ resp.status = "ok"
    /\ \E s, t \in db.subnets :
          /\ s.id # t.id
          /\ s.block_id = t.block_id
          /\ s.vlan_id = Null
          /\ t.vlan_id = Null
          /\ t \notin before.subnets

\* ---------------------------------------------------------- block rename
RenameNames == {NameA, NameB, NewName}

NextRename ==
    \/ \E n \in RenameNames : add_block_route(n)
    \/ \E b \in BlockIdInputs, n \in RenameNames : rename_block(b, n)
    \/ \E b \in BlockIdInputs, n \in RenameNames : Block_put(b, [name |-> n])
    \/ \E b \in BlockIdInputs : delete_block_route(b)

SpecRename == Init /\ [][NextRename]_vars

\* C21: a rename of a stored block, by POST /rename_block or by PUT
\* /api/blocks, to the name of another block is answered with a conflict and
\* changes no block; a rename to the name the block has is answered with
\* success
RenameDuplicateRejected ==
    [][\A b \in BlockIdInputs, n \in RenameNames :
          (/\ get_block_by_id(db, b) # {}
           /\ rename_block(b, n) \/ Block_put(b, [name |-> n]))
          => /\ (\E o \in db.blocks : o.id # b /\ o.name = n)
                    => (resp'.status = "conflict" /\ db' = db)
             /\ BlockName(db, b) = n => resp'.status = "ok"]_vars

\* ------------------------------------------------- snapshots not restorable
\* migrate_old_database: a change_log row of the old database is copied with
\* the content it has there
migrate_change(content) ==
    /\ Len(change_log) < MaxLog
    /\ change_log' = Append(change_log, [id |-> Len(change_log) + 1, action |-> "SNAPSHOT",
                                         block |-> <<45>>, content |-> content])
    /\ resp' = Response("migrate", "ok")
    /\ before' = db
    /\ undo' = NoUndo
    /\ UNCHANGED <<db, fault, inflight>>

LegacyContents == {NullContent, EmptyContent, CorruptContent}

NextBadSnap ==
    \/ \E n \in BlockNameInputs : add_block_route(n)
    \/ \E b \in BlockIdInputs : add_subnet(b, ImportForm.name, ImportForm.vlan_id, ImportForm.cidr)
    \/ \E c \in LegacyContents : migrate_change(c)
    \/ \E i \in SnapIdInputs, f \in FailAtInputs : restore_snapshot(i, f)

SpecBadSnap == Init /\ [][NextBadSnap]_vars

\* C22: a restore of an id that no entry has, or whose entry has no content,
\* is answered not found; a restore of an entry whose content is no JSON
\* document is answered with another error; each leaves the stored data and
\* the change log as they were
BadSnapshotRefused ==
    [][\A i \in SnapIdInputs :
          (\E f \in FailAtInputs : restore_snapshot(i, f)) =>
             LET es == {j \in 1..Len(change_log) : change_log[j].id = i}
             IN  /\ (\A j \in es : change_log[j].content = NullContent)
                       => /\ resp'.status = "not_found"
                          /\ db' = db /\ change_log' = change_log
                 /\ (\E j \in es : change_log[j].content = CorruptContent)
                       => /\ resp'.status \notin {"not_found", "ok"}
                          /\ db' = db /\ change_log' = change_log]_vars

\* a restore of an entry with corrupt content was refused while blocks were
\* stored and the log held an entry without content as well
BadSnapshotRefused_witness ==
    /\ resp.op = "restore"
    /\ resp.status = "error"
    /\ db.blocks # {}
    /\ \E j \in 1..Len(change_log) : change_log[j].content = CorruptContent
    /\ \E j \in 1..Len(change_log) : change_log[j].content = NullContent

\* ------------------------------------------- failures after the commit
LogFaultInputs == {"none", "log", "export"}

LogFaultForms ==
    { [name |-> <<110>>, vlan_id |-> EmptyText, cidr |-> Cidr(Net10, 24)],
      [name |-> <<110>>, vlan_id |-> VlanText(100), cidr |-> Cidr(Net10 + 256, 24)] }

NextLogFault ==
    \/ \E n \in {NameA, NameB} : add_block_route(n)
    \/ \E f \in LogFaultForms : add_subnet(1, f.name, f.vlan_id, f.cidr)
    \/ \E i \in 1..MaxSubnets, f \in LogFaultForms : edit_subnet(i, f.name, f.vlan_id, f.cidr)
    \/ \E f \in LogFaultInputs : SetFault(f)

SpecLogFault == Init /\ [][NextLogFault]_vars

\* C23: a request whose write was committed while the export or the
\* change-log write after it failed is answered as successful
LogFailureNonfatal ==
    [][(fault \in {"log", "export"} /\ fault' = fault /\ db' # db)
          => resp'.status = "ok"]_vars

\* ------------------------------------------------------------ VLAN range
\* the VLAN values sent: as form text, and as JSON value
VlanFormValues == {EmptyText, VlanText(0), VlanText(1), VlanText(4094), VlanText(4095)}
VlanJsonValues == {JNull, JInt(0), JInt(1), JInt(4095), JStr(VlanText(0)), JStr(EmptyText)}

\* a VLAN text or JSON value that gives a number outside 1..4094
FormOutOfRange(v) == v.form = "digits" /\ (v.n < MIN_VLAN_ID \/ v.n > MAX_VLAN_ID)
JsonOutOfRange(j) ==
    \/ j.t = "int" /\ (j.n < MIN_VLAN_ID \/ j.n > MAX_VLAN_ID)
    \/ j.t = "str" /\ FormOutOfRange(j.s)

VlanPostBody(j) == [block_id |-> 1, name |-> ApiName, cidr |-> Cidr(Net10, 24), vlan_id |-> j]

NextVlan ==
    \/ add_block_route(NameA)
    \/ \E v \in VlanFormValues : add_subnet(1, ApiName, v, Cidr(Net10 + 256, 24))
    \/ \E i \in 1..MaxSubnets, v \in VlanFormValues :
          edit_subnet(i, ApiName, v, Cidr(Net10 + 256, 24))
    \/ \E j \in VlanJsonValues : NetworkList_post(VlanPostBody(j))
    \/ \E i \in 1..MaxSubnets, j \in VlanJsonValues : Network_put(i, [vlan_id |-> j])
    \/ \E i \in 1..MaxSubnets : delete_subnet_route(i)

SpecVlan == Init /\ [][NextVlan]_vars

\* C24: a create or an update of a subnet that carries a VLAN outside
\* 1..4094, as form text or as JSON value, is refused as invalid (or for its
\* missing block or subnet) and stores nothing
VlanOutOfRangeRejected ==
    [][/\ \A v \in {v \in VlanFormValues : FormOutOfRange(v)} :
             (\/ add_subnet(1, ApiName, v, Cidr(Net10 + 256, 24))
              \/ \E i \in 1..MaxSubnets : edit_subnet(i, ApiName, v, Cidr(Net10 + 256, 24)))
                => (resp'.status \in {"validation", "not_found"} /\ db' = db)
       /\ \A j \in {j \in VlanJsonValues : JsonOutOfRange(j)} :
             (\/ NetworkList_post(VlanPostBody(j))
              \/ \E i \in 1..MaxSubnets : Network_put(i, [vlan_id |-> j]))
                => (resp'.status \in {"validation", "not_found"} /\ db' = db)]_vars

\* -------------------------------------------------------------- hierarchy
\* IPv4Network.subnet_of
subnet_of(a, b) ==
    /\ network_address(b) <= network_address(a)
    /\ broadcast_address(a) <= broadcast_address(b)

\* the rows of a sequence that are in a set, in the order of the sequence
Filter(seq, keep) ==
    LET F[i \in 0..Len(seq)] ==
            IF i = 0 THEN <<>>
            ELSE IF seq[i] \in keep THEN Append(F[i - 1], seq[i]) ELSE F[i - 1]
    IN  F[Len(seq)]

\* the order of IPv4Network: by network address, then by netmask; an entry
\* whose CIDR does not parse sorts as 255.255.255.255/32
NetworkSortKey(c) ==
    IF IPv4Network(c, FALSE) THEN <<network_address(c), c.plen>>
    ELSE <<Pow2(32) - 1, 32>>

\* index(): hierarchical_networks of one block, a sequence of entries
\* [type, item, subnets].  Every container of the block is an entry that
\* lists the subnets of the block inside its base_network; after them each
\* subnet inside no container is an entry; list.sort orders them by network
hierarchical_networks(d, block_id) ==
    LET block_containers == Filter(get_all_containers(d),
                                   {c \in d.containers : c.block_id = block_id})
        block_subnets == Filter(get_all_subnets(d),
                                {s \in d.subnets : s.block_id = block_id})
        Inside(s, c) == /\ IPv4Network(s.cidr, FALSE)
                        /\ IPv4Network(c.base_network, FALSE)
                        /\ subnet_of(s.cidr, c.base_network)
        ContainerEntry(i) ==
            LET c == block_containers[i] IN
            [id |-> i,
             type |-> "container", item |-> ContainerToDict(d, c),
             cidr |-> c.base_network,
             subnets |-> LET inside == Filter(block_subnets,
                                              {s \in d.subnets : Inside(s, c)})
                         IN  [k \in 1..Len(inside) |-> SubnetToDict(d, inside[k])] \o <<>>]
        SubnetEntry(j) ==
            LET s == block_subnets[j] IN
            [id |-> Len(block_containers) + j,
             type |-> "subnet", item |-> SubnetToDict(d, s), cidr |-> s.cidr, subnets |-> <<>>]
        entries ==
            {ContainerEntry(i) : i \in {i \in 1..Len(block_containers) :
                                          IPv4Network(block_containers[i].base_network, FALSE)}}
            \cup {SubnetEntry(j) : j \in {j \in 1..Len(block_subnets) :
                     \A i \in 1..Len(block_containers) :
                        ~Inside(block_subnets[j], block_containers[i])}}
    IN  SortedBy({[key |-> NetworkSortKey(e.cidr), row |-> e] : e \in entries})

\* GET /: the hierarchy shown for a block
index(block_id) ==
    /\ get_block_by_id(db, block_id) # {}
    /\ resp' = [op |-> "index", status |-> "ok", block_id |-> block_id, field |-> "none",
                conflict |-> NoRec, target |-> 0,
                networks |-> hierarchical_networks(db, block_id)]
    /\ before' = db
    /\ undo' = NoUndo
    /\ UNCHANGED <<db, change_log, fault, inflight>>

HierarchySubnetForms ==
    {[name |-> <<110>>, vlan_id |-> EmptyText, cidr |-> c] :
        c \in {Cidr(Net10 + 256, 24), Cidr(Net10 + 65536 + 256, 24), Cidr(Net10 + 5, 24)}}

NextHierarchy ==
    \/ \E n \in {NameA, NameB} : add_block_route(n)
    \/ \E b \in 1..MaxBlocks, f \in HierarchySubnetForms :
          add_subnet(b, f.name, f.vlan_id, f.cidr)
    \/ \E b \in 1..MaxBlocks, c \in ContainerCidrInputs :
          add_container_route(b, ContainerName, c)
    \/ \E b \in 1..MaxBlocks, c \in ContainerCidrInputs :
          ContainerList_post([block_id |-> b, name |-> ContainerName, base_network |-> c])
    \/ \E b \in 1..MaxBlocks : index(b)

SpecHierarchy == Init /\ [][NextHierarchy]_vars

\* the places of the hierarchy at which the subnet of that id is listed:
\* <<i, 0>> for the top-level entry i, <<i, j>> for place j under container i
Places(networks, subnet_id) ==
    {<<i, 0>> : i \in {i \in 1..Len(networks) :
                         networks[i].type = "subnet" /\ networks[i].item.id = subnet_id}}
    \cup UNION {{<<i, j>> : j \in {j \in 1..Len(networks[i].subnets) :
                                     networks[i].subnets[j].id = subnet_id}} :
                i \in 1..Len(networks)}

\* C25: every subnet of the block is listed in the hierarchy of the block
\* exactly once, under a container or at the top level
HierarchyListsOnce ==
    resp.op = "index" =>
        \A s \in db.subnets :
            s.block_id = resp.block_id => Cardinality(Places(resp.networks, s.id)) = 1

\* ------------------------------------------------ the sort strategies
\* sorted(list, key=...): the rows of a list, each paired with its key, in
\* key order; rows with equal keys keep the order of the list
sorted(keyed) ==
    LET n == Len(keyed)
        Before(i, j) == LexLess(keyed[i].key, keyed[j].key) \/ (keyed[i].key = keyed[j].key /\ i < j)
        at == [k \in 1..n |->
                 keyed[CHOOSE j \in 1..n : Cardinality({i \in 1..n : Before(i, j)}) = k - 1].row]
    IN  at \o <<>>

\* the three strategies applied to a list of Subnet objects
sort_networks(sort_field, subnets) ==
    sorted([i \in 1..Len(subnets) |->
              [key |-> CASE sort_field = "Network" -> get_network_key(subnets[i])
                         [] sort_field = "VLAN" -> get_vlan_network_key(subnets[i])
                         [] sort_field = "Name" -> get_name_network_key(subnets[i]),
               row |-> subnets[i]]])

SortFields == {"Network", "VLAN", "Name"}

\* Subnet objects as import_data stores them: any integer or null as VLAN,
\* any text as CIDR ("10.0.0.0/33" is not a network)
SortRows ==
    { [id |-> 1, block_id |-> 1, name |-> <<110>>, vlan_id |-> 100, cidr |-> Cidr(Net10, 24)],
      [id |-> 2, block_id |-> 1, name |-> <<78>>, vlan_id |-> Null, cidr |-> Cidr(Net10 + 256, 24)],
      [id |-> 3, block_id |-> 1, name |-> <<109>>, vlan_id |-> 0, cidr |-> Cidr(Net10, 33)],
      [id |-> 4, block_id |-> 2, name |-> <<110>>, vlan_id |-> 5, cidr |-> Cidr(Net10, 24)],
      [id |-> 5, block_id |-> 1, name |-> <<110>>, vlan_id |-> 100, cidr |-> Cidr(Net10, 33)],
      [id |-> 6, block_id |-> 1, name |-> <<109>>, vlan_id |-> Null, cidr |-> Cidr(Net10, 33)] }

MaxSortLen == 3

\* the lists of at most MaxSortLen different rows, in every order
SortInputs ==
    UNION {{q \in [1..n -> SortRows] : \A i, j \in 1..n : i # j => q[i] # q[j]} : n \in 0..MaxSortLen}

\* the list that is going to be sorted
InitSort ==
    /\ db = EmptyDb
    /\ change_log = <<>>
    /\ \E q \in SortInputs :
          resp = [Response("none", "none") EXCEPT !.conflict = [input |-> q, sorted |-> q, again |-> q]]
    /\ before = EmptyDb
    /\ undo = NoUndo
    /\ fault = "none"
    /\ inflight = [p \in Requests |-> Idle]

\* one strategy applied to the list, and applied again to its own result
sort_call(sort_field) ==
    /\ resp.op = "none"
    /\ \E out \in {sort_networks(sort_field, resp.conflict.input)} :
          resp' = [resp EXCEPT !.op = "sort", !.field = sort_field,
                               !.conflict = [input |-> resp.conflict.input, sorted |-> out,
                                             again |-> sort_networks(sort_field, out)]]
    /\ UNCHANGED <<db, change_log, before, undo, fault, inflight>>

NextSort == \E f \in SortFields : sort_call(f)

SpecSort == InitSort /\ [][NextSort]_vars

Parseable(s) == IPv4Network(s.cidr, FALSE)
AddressOrdered(a, b) ==
    \/ network_address(a.cidr) < network_address(b.cidr)
    \/ network_address(a.cidr) = network_address(b.cidr) /\ a.cidr.plen <= b.cidr.plen
NameOrdered(a, b) == LowerSeq(a.name) = LowerSeq(b.name) \/ LexLess(LowerSeq(a.name), LowerSeq(b.name))

\* a and b are in the same group of the strategy: the block, the VLAN of the
\* block, the name of the block
SameGroup(sort_field, a, b) ==
    /\ a.block_id = b.block_id
    /\ sort_field = "VLAN" => a.vlan_id = b.vlan_id
    /\ sort_field = "Name" => LowerSeq(a.name) = LowerSeq(b.name)

\* row a may stand before row b in the result of the strategy
MayPrecede(sort_field, a, b) ==
    /\ a.block_id <= b.block_id
    /\ a.block_id = b.block_id =>
          /\ sort_field = "VLAN" =>
                /\ a.vlan_id = Null => b.vlan_id = Null
                /\ (a.vlan_id # Null /\ b.vlan_id # Null) => a.vlan_id <= b.vlan_id
          /\ sort_field = "Name" => NameOrdered(a, b)
          /\ SameGroup(sort_field, a, b) =>
                /\ Parseable(b) => Parseable(a)
                /\ (Parseable(a) /\ Parseable(b)) => AddressOrdered(a, b)

InvalidCsvRow ==
    [block |-> NameA, cidr |-> Cidr(Net10, 24), vlan |-> EmptyText, name |-> <<39>>]

\* files of valid rows, and files in which a row is invalid: alone, after a
\* valid row, before a valid row
InvalidCsvFileInputs ==
    {rows \in UNION {[1..n -> CsvRowInputs] : n \in 1..MaxCsvRows} :
        \E i \in 1..Len(rows) : rows[i] = InvalidCsvRow}
ValidCsvFileInputs ==
    { <<[block |-> NameA, cidr |-> Cidr(Net10, 24), vlan |-> VlanText(100), name |-> <<110>>]>>,
      <<[block |-> NameB, cidr |-> Cidr(Net10 + 256, 24), vlan |-> EmptyText, name |-> <<110>>]>> }

NextCsvInvalid ==
    \/ \E n \in {NameA, NameB} : add_block_route(n)
    \/ \E b \in BlockIdInputs : add_subnet(b, ImportForm.name, ImportForm.vlan_id, ImportForm.cidr)
    \/ \E b \in BlockIdInputs :
          add_container_route(b, ImportContainerForm.name, ImportContainerForm.base_network)
    \/ \E m \in ImportModes, rows \in ValidCsvFileInputs \cup InvalidCsvFileInputs :
          import_csv(m, rows, 0)

SpecCsvInvalid == Init /\ [][NextCsvInvalid]_vars

\* C27: an import of a CSV file with a data row that fails the validation
\* writes nothing in any mode: the blocks, containers and subnets stay as
\* they were, nothing is deleted, and no change-log entry is appended
CsvInvalidRowWritesNothing ==
    [][\A m \in ImportModes, rows \in InvalidCsvFileInputs :
          import_csv(m, rows, 0) =>
              /\ db' = db
              /\ change_log' = change_log
              /\ resp'.status = "validation"]_vars

\* a replace-mode import was refused for its invalid row while a block, a
\* container and a subnet were stored
CsvInvalidRowWritesNothing_witness ==
    /\ resp.op = "import_csv"
    /\ resp.status = "validation"
    /\ resp.field = "replace"
    /\ db.blocks # {}
    /\ db.containers # {}
    /\ db.subnets # {}
    /\ db = before

\* --------------------------------- the snapshot taken before a replace
\* the change-log entries written by the replace step of an import
PreReplaceEntries(log) ==
    {i \in 1..Len(log) : log[i].action = "PRE_REPLACE_SNAPSHOT"}

\* a block with a container and a subnet is built, replace-mode imports run
\* while add_change_log works or fails, and the snapshots taken before a
\* replace are restored
NextPreReplace ==
    \/ add_block_route(NameA)
    \/ add_subnet(1, ImportForm.name, ImportForm.vlan_id, ImportForm.cidr)
    \/ add_container_route(1, ImportContainerForm.name, ImportContainerForm.base_network)
    \/ \E rows \in ValidCsvFileInputs, f \in {0, 1} : import_csv("replace", rows, f)
    \/ \E s \in PreReplaceEntries(change_log) : restore_snapshot(s, 0)
    \/ \E f \in {"none", "log"} : SetFault(f)

SpecPreReplace == Init /\ [][NextPreReplace]_vars

\* C28: after a replace-mode CSV import the change log holds the
\* PRE_REPLACE_SNAPSHOT entry of that import, and restoring its content gives
\* back exactly the blocks, containers and subnets stored before the import,
\* whatever the import did afterwards
PreReplaceSnapshotRestores ==
    (resp.op = "import_csv" /\ resp.field = "replace" /\ resp.status = "ok") =>
        /\ PreReplaceEntries(change_log) # {}
        /\ \E i \in {Max(PreReplaceEntries(change_log))} :
              /\ json_valid(change_log[i].content)
              /\ import_data(db, json_loads(change_log[i].content), 0) = [ok |-> TRUE, db |-> before]

\* ------------------------------- the write and its snapshot, in parallel
\* _create_subnet_from_validated_data statement by statement, for a request
\* that passed its checks: DatabaseService.create_subnet commits the row
create_subnet_step(p) ==
    /\ inflight[p].pc = "checked"
    /\ inflight[p].op = "add_subnet"
    /\ db' = create_subnet(db, inflight[p].block_id, inflight[p].name, inflight[p].vlan_id,
                           inflight[p].cidr)
    /\ inflight' = [inflight EXCEPT ![p] = [pc |-> "written", op |-> "add_subnet",
                                            block_id |-> inflight[p].block_id,
                                            subnet_id |-> NextId(db.subnets)]]
    /\ UNCHANGED <<change_log, resp, before, undo, fault>>

\* content = json.dumps(DatabaseService.export_all_data()): the rows
\* committed at this moment
export_all_data_step(p) ==
    /\ inflight[p].pc = "written"
    /\ inflight' = [inflight EXCEPT ![p] = [pc |-> "exported", op |-> "add_subnet",
                                            block_id |-> inflight[p].block_id,
                                            subnet_id |-> inflight[p].subnet_id,
                                            content |-> json_dumps(export_all_data(db))]]
    /\ UNCHANGED <<db, change_log, resp, before, undo, fault>>

\* DatabaseService.add_change_log(action="ADD_SUBNET", ..., content=content)
\* and the redirect
add_change_log_step(p) ==
    /\ inflight[p].pc = "exported"
    /\ change_log' = add_change_log(change_log, "ADD_SUBNET",
                                    BlockName(db, inflight[p].block_id), inflight[p].content)
    /\ resp' = [Response("add_subnet", "ok") EXCEPT !.target = inflight[p].subnet_id]
    /\ before' = db
    /\ undo' = NoUndo
    /\ inflight' = [inflight EXCEPT ![p] = Idle]
    /\ UNCHANGED <<db, fault>>

NextInterleave ==
    \/ \E n \in {NameA, NameB} : add_block_route(n)
    \/ \E p \in Requests, f \in RaceSubnetForms : add_subnet_check(p, 1, f.name, f.vlan_id, f.cidr)
    \/ \E p \in Requests : create_subnet_step(p)
    \/ \E p \in Requests : export_all_data_step(p)
    \/ \E p \in Requests : add_change_log_step(p)

SpecInterleave == Init /\ [][NextInterleave]_vars

\* the ids of the subnets in the snapshot of entry i of the log, none for the
\* state before the first entry
SnapshotSubnetIds(log, i) ==
    IF i = 0 THEN {}
    ELSE {json_loads(log[i].content).subnets[k].id :
             k \in 1..Len(json_loads(log[i].content).subnets)}

\* C29: the snapshot of every change-log entry is the snapshot of the entry
\* before it with the write of its own request applied: the snapshot of an
\* ADD_SUBNET entry holds one subnet more than the one before, and no subnet
\* whose own entry comes later in the log
SnapshotHoldsOwnWriteOnly ==
    \A i \in 1..Len(change_log) :
        change_log[i].action = "ADD_SUBNET" =>
            /\ SnapshotSubnetIds(change_log, i - 1) \subseteq SnapshotSubnetIds(change_log, i)
            /\ Cardinality(SnapshotSubnetIds(change_log, i) \ SnapshotSubnetIds(change_log, i - 1)) = 1

\* ------------------------------------------------ the snapshot limit
\* get_snapshot_limit(): the limit of the [snapshots] section or the
\* SNAPSHOT_LIMIT variable of the environment, set to 2 here
get_snapshot_limit == 2

\* DatabaseService.get_snapshots: the entries with content
get_snapshots(log) == {i \in 1..Len(log) : log[i].content # NullContent}

\* C30: the number of change-log entries with content never exceeds the
\* configured number of snapshots to keep
SnapshotsWithinLimit ==
    Cardinality(get_snapshots(change_log)) <= get_snapshot_limit

====
